---------------------------- MODULE Spec2Model ----------------------------
(***************************************************************************)
(* A model of the cv-wiz backend's relevance scoring and selection engine  *)
(* (app/utils/relevance_scorer.py), of the resume compilation workflow     *)
(* that drives it (app/services/resume_compiler.py), of the Redis response *)
(* cache the workflow reads and writes (app/utils/redis_cache.py), of the  *)
(* request deduplicator that shares in-flight calls                        *)
(* (app/utils/request_deduplicator.py), and of the CSRF middleware as the  *)
(* application adds it (app/utils/csrf_protection.py, app/main.py).        *)
(*                                                                         *)
(* Texts (Python str values) are sequences of one-character strings, so    *)
(* that lower-casing, the tokenizer's regular expression, splitting and    *)
(* substring tests are computed character by character as the code does.   *)
(* Tokens, once cut out of a text, are kept as TLA+ strings.               *)
(*                                                                         *)
(* Scores (Python floats) are exact: a score is a record [num, den] that   *)
(* stands for  num / (100 * sqrt(den)), num counting hundredths.           *)
(***************************************************************************)
EXTENDS Integers, Sequences, FiniteSets, TLC

(***************************************************************************)
(* Characters and str methods                                              *)
(***************************************************************************)
UPPER == <<"A","B","C","D","E","F","G","H","I","J","K","L","M",
           "N","O","P","Q","R","S","T","U","V","W","X","Y","Z">>

LOWER == <<"a","b","c","d","e","f","g","h","i","j","k","l","m",
           "n","o","p","q","r","s","t","u","v","w","x","y","z">>

DIGITS == {"0","1","2","3","4","5","6","7","8","9"}

\* U+0130, LATIN CAPITAL LETTER I WITH DOT ABOVE, and U+0307, COMBINING DOT
\* ABOVE: str.lower() turns the first into "i" followed by the second.
IDOT == "I-dot-above"

COMBINING_DOT == "combining-dot"

Range(s) == { s[i] : i \in DOMAIN s }

\* a function with every value computed, so that applying it is a lookup
Tabulated(f) == f @@ << >>

\* the lower-case letter of every upper-case letter
LOWER_OF ==
    Tabulated([c \in Range(UPPER) |->
                  LOWER[CHOOSE i \in DOMAIN UPPER : UPPER[i] = c]])

\* str.lower() of one character: a text, because U+0130 lower-cases to two.
CharLower(c) ==
    IF c \in DOMAIN LOWER_OF THEN << LOWER_OF[c] >>
    ELSE IF c = IDOT THEN << "i", COMBINING_DOT >>
    ELSE << c >>

RECURSIVE StrLowerRange(_, _, _)
\* the lower-cased characters lo..hi of s, by halves
StrLowerRange(s, lo, hi) ==
    IF lo > hi THEN << >>
    ELSE IF lo = hi THEN CharLower(s[lo])
    ELSE LET mid == (lo + hi) \div 2
         IN  StrLowerRange(s, lo, mid) \o StrLowerRange(s, mid + 1, hi)

\* str.lower()
StrLower(s) == StrLowerRange(s, 1, Len(s))

\* \s of the re module
SPACE_CHARS == {" ", "\n", "\t", "\r"}

IsSpace(c) == c \in SPACE_CHARS

\* \w of the re module: letters, digits and the underscore (a combining mark
\* is not alphanumeric)
WORD_CHARS == Range(UPPER) \cup Range(LOWER) \cup DIGITS \cup {"_", IDOT}

IsWordChar(c) == c \in WORD_CHARS

SetMin(S) == CHOOSE x \in S : \A y \in S : x <= y

SetMax(S) == CHOOSE x \in S : \A y \in S : y <= x

\* str.strip()
Strip(s) ==
    LET inked == { i \in DOMAIN s : ~IsSpace(s[i]) }
    IN  IF inked = {} THEN << >> ELSE SubSeq(s, SetMin(inked), SetMax(inked))

\* str.rstrip("."): every trailing period goes
RStripDots(s) ==
    LET kept == { i \in DOMAIN s : s[i] # "." }
    IN  IF kept = {} THEN << >> ELSE SubSeq(s, 1, SetMax(kept))

\* s.split("\n")[0]
FirstLine(s) ==
    LET breaks == { i \in DOMAIN s : s[i] = "\n" }
    IN  IF breaks = {} THEN s ELSE SubSeq(s, 1, SetMin(breaks) - 1)

\* the elements of a set of integers in increasing order
Sorted(S) ==
    [n \in 1..Cardinality(S) |->
        CHOOSE x \in S : Cardinality({ y \in S : y < x }) = n - 1]

\* str.split(): the maximal runs of non-whitespace characters
Split(s) ==
    LET starts == { i \in DOMAIN s :
                      ~IsSpace(s[i]) /\ (i = 1 \/ IsSpace(s[i - 1])) }
        EndOf(i) == SetMin({ j \in i..Len(s) :
                      j = Len(s) \/ IsSpace(s[j + 1]) })
        order == Sorted(starts)
    IN  [n \in DOMAIN order |-> SubSeq(s, order[n], EndOf(order[n]))]

\* str.isdigit()
IsDigit(t) == t # << >> /\ \A i \in DOMAIN t : t[i] \in DIGITS

RECURSIVE StrRange(_, _, _)
StrRange(t, lo, hi) ==
    IF lo > hi THEN ""
    ELSE IF lo = hi THEN t[lo]
    ELSE LET mid == (lo + hi) \div 2
         IN  StrRange(t, lo, mid) \o StrRange(t, mid + 1, hi)

\* the token a sequence of characters spells
Str(t) == StrRange(t, 1, Len(t))

RECURSIVE JoinFrom(_, _)
JoinFrom(parts, i) ==
    IF i > Len(parts) THEN << >>
    ELSE IF i = Len(parts) THEN parts[i]
    ELSE parts[i] \o << " " >> \o JoinFrom(parts, i + 1)

\* " ".join(parts)
Join(parts) == JoinFrom(parts, 1)

\* needle in haystack, for str: the empty string is in every string
IsSubstring(needle, hay) ==
    \/ needle = << >>
    \/ \E i \in 1..(Len(hay) - Len(needle) + 1) :
          /\ hay[i] = needle[1]
          /\ SubSeq(hay, i, i + Len(needle) - 1) = needle

SeqToSet(s) == Range(s)

(***************************************************************************)
(* RelevanceScorer: tokenizer and job description analysis                 *)
(***************************************************************************)
STOP_WORDS == {
    "the", "a", "an", "and", "or", "but", "in", "on", "at", "to", "for",
    "of", "with", "by", "from", "as", "is", "was", "are", "were", "been",
    "be", "have", "has", "had", "do", "does", "did", "will", "would",
    "could", "should", "may", "might", "must", "shall", "can", "need",
    "we", "you", "they", "he", "she", "it", "i", "me", "my", "our",
    "your", "their", "this", "that", "these", "those", "what", "which",
    "who", "whom", "when", "where", "why", "how", "all", "each", "every",
    "both", "few", "more", "most", "other", "some", "such", "no", "not",
    "only", "own", "same", "so", "than", "too", "very", "just", "also",
    "about", "into", "through", "during", "before", "after", "above",
    "below", "between", "under", "again", "further", "then", "once" }

\* RECENCY_BOOST = 1.2, as tenths
RECENCY_BOOST == 12

\* TITLE_MATCH_BOOST = 2.0, as tenths
TITLE_MATCH_BOOST == 20

\* SKILL_EXACT_MATCH_BOOST = 1.5, as tenths
SKILL_EXACT_MATCH_BOOST == 15

\* the factor 1.5 of a required skill, as tenths
REQUIRED_SKILL_BOOST == 15

\* the factor 1.2 of an expert skill, as tenths
EXPERT_BOOST == 12

\* the flat score 2.0 of a substring match
SUBSTRING_SCORE == 2

\* the weight 2 of a technology match
TECH_MATCH_WEIGHT == 2

\* a job title is a first line shorter than this
TITLE_MAX_LEN == 100

\* RelevanceScorer._cache_max_size
CACHE_MAX_SIZE == 100

\* the characters the tokenizer's regular expression [^\w\s+#.] leaves
KEPT_CHARS == WORD_CHARS \cup SPACE_CHARS \cup {"+", "#", "."}

\* re.sub(r"[^\w\s+#.]", " ", c)
CleanChar(c) == IF c \in KEPT_CHARS THEN c ELSE " "

Clean(s) == [i \in DOMAIN s |-> CleanChar(s[i])]

\* the loop body's first statement: a token that ends with a period, is not
\* ".net" and is longer than one character loses its trailing periods
StripTrailingDot(t) ==
    IF t[Len(t)] = "." /\ t # <<".", "n", "e", "t">> /\ Len(t) > 1
    THEN RStripDots(t)
    ELSE t

\* the loop body's filter
KeepToken(t) == Str(t) \notin STOP_WORDS /\ Len(t) > 1 /\ ~IsDigit(t)

\* RelevanceScorer._tokenize
TokenizeText(text) ==
    LET words    == Split(Clean(StrLower(text)))
        stripped == [i \in DOMAIN words |-> StripTrailingDot(words[i])]
        kept     == SelectSeq(stripped, KeepToken)
    IN  Tabulated([i \in DOMAIN kept |-> Str(kept[i])])

\* collections.Counter(tokens)
Counter(tokens) ==
    Tabulated([t \in SeqToSet(tokens) |->
                  Cardinality({i \in DOMAIN tokens : tokens[i] = t})])

\* RelevanceScorer._extract_job_title
ExtractJobTitle(jd) ==
    LET first_line == Strip(FirstLine(Strip(jd)))
    IN  IF Len(first_line) < TITLE_MAX_LEN THEN StrLower(first_line) ELSE << >>

\* The three skill_patterns of _extract_required_skills, each the alternatives
\* of its leading group; an optional "s" is written as two alternatives, the
\* longer first. Every pattern continues with [:\s]+([^.]+).
PATTERN_REQUIRED ==
    << <<"r","e","q","u","i","r","e","d">>,
       <<"m","u","s","t"," ","h","a","v","e">>,
       <<"e","s","s","e","n","t","i","a","l">>,
       <<"m","a","n","d","a","t","o","r","y">> >>

PATTERN_SKILLS ==
    << <<"s","k","i","l","l","s">>,
       <<"s","k","i","l","l">>,
       <<"r","e","q","u","i","r","e","m","e","n","t","s">>,
       <<"r","e","q","u","i","r","e","m","e","n","t">>,
       <<"q","u","a","l","i","f","i","c","a","t","i","o","n","s">>,
       <<"q","u","a","l","i","f","i","c","a","t","i","o","n">> >>

PATTERN_EXPERIENCE ==
    << <<"e","x","p","e","r","i","e","n","c","e"," ","w","i","t","h">>,
       <<"p","r","o","f","i","c","i","e","n","c","y"," ","i","n">>,
       <<"k","n","o","w","l","e","d","g","e"," ","o","f">> >>

SKILL_PATTERNS == << PATTERN_REQUIRED, PATTERN_SKILLS, PATTERN_EXPERIENCE >>

MatchesAt(s, i, kw) ==
    i + Len(kw) - 1 <= Len(s) /\ SubSeq(s, i, i + Len(kw) - 1) = kw

\* the length of the maximal run of [:\s] at position i
SepRun(s, i) ==
    SetMin({ j \in i..(Len(s) + 1) :
               j > Len(s) \/ ~(s[j] = ":" \/ IsSpace(s[j])) }) - i

\* the length of the maximal run of [^.] at position i
NonDotRun(s, i) ==
    SetMin({ j \in i..(Len(s) + 1) : j > Len(s) \/ s[j] = "." }) - i

\* The match of one alternative kw followed by [:\s]+([^.]+) at position i, as
\* [ok, capture, next]. [:\s]+ is greedy and takes the whole run of
\* separators; when nothing but a period or the end follows the run, the
\* engine backtracks and the group captures the run's last character.
MatchKeywordAt(s, i, kw) ==
    LET k   == i + Len(kw)
        r   == SepRun(s, k)
        c   == k + r
        cap == NonDotRun(s, c)
    IN  IF ~MatchesAt(s, i, kw) \/ r = 0 \/ (cap = 0 /\ r = 1)
        THEN [ok |-> FALSE, capture |-> << >>, next |-> i + 1]
        ELSE IF cap = 0
        THEN [ok |-> TRUE, capture |-> SubSeq(s, c - 1, c - 1), next |-> c]
        ELSE [ok |-> TRUE, capture |-> SubSeq(s, c, c + cap - 1),
              next |-> c + cap]

RECURSIVE MatchPatternAt(_, _, _, _)
\* the first alternative of the pattern that matches at position i
MatchPatternAt(s, i, pattern, a) ==
    IF a > Len(pattern)
    THEN [ok |-> FALSE, capture |-> << >>, next |-> i + 1]
    ELSE LET m == MatchKeywordAt(s, i, pattern[a])
         IN  IF m.ok THEN m ELSE MatchPatternAt(s, i, pattern, a + 1)

RECURSIVE FindAll(_, _, _)
\* re.findall(pattern, s): the captures of the non-overlapping matches, found
\* from left to right, the search resuming where the last match ended
FindAll(s, i, pattern) ==
    LET hits == { j \in i..Len(s) : MatchPatternAt(s, j, pattern, 1).ok }
    IN  IF hits = {} THEN << >>
        ELSE LET m == MatchPatternAt(s, SetMin(hits), pattern, 1)
             IN  << m.capture >> \o FindAll(s, m.next, pattern)

RECURSIVE TokensOfAll(_, _)
TokensOfAll(captures, i) ==
    IF i > Len(captures) THEN {}
    ELSE SeqToSet(TokenizeText(captures[i])) \cup TokensOfAll(captures, i + 1)

RECURSIVE RequiredSkillsFrom(_, _)
RequiredSkillsFrom(lowered, p) ==
    IF p > Len(SKILL_PATTERNS) THEN {}
    ELSE TokensOfAll(FindAll(lowered, 1, SKILL_PATTERNS[p]), 1)
             \cup RequiredSkillsFrom(lowered, p + 1)

\* RelevanceScorer._extract_required_skills
ExtractRequiredSkills(jd) == RequiredSkillsFrom(StrLower(jd), 1)

\* RelevanceScorer.__init__ on an instance that is not initialized yet: the
\* derived state of the job description
AnalyzeText(jd) ==
    LET tokens == TokenizeText(jd)
    IN  [ job_description |-> StrLower(jd),
          jd_tokens       |-> tokens,
          jd_keyword_freq |-> Counter(tokens),
          job_title       |-> ExtractJobTitle(jd),
          required_skills |-> ExtractRequiredSkills(jd) ]

(***************************************************************************)
(* Scores                                                                  *)
(***************************************************************************)
\* the score num / (100 * sqrt(den)); den is 1 where the code does not
\* normalise
MkScore(num, den) == [num |-> num, den |-> den]

\* the float of an integer, in hundredths
Hundredths(n) == n * 100

\* the float 0.0
ZERO == MkScore(0, 1)

\* a < b for scores (both are non-negative)
ScoreLess(a, b) == a.num * a.num * b.den < b.num * b.num * a.den

\* a == b for scores
ScoreEq(a, b) == a.num * a.num * b.den = b.num * b.num * a.den

\* score *= boost, boost in tenths
Boost(num, boost) == (num * boost) \div 10

\* typing.Optional: None is the empty sequence, a value v is << v >>
None == << >>

Some(v) == << v >>

\* x or ""
OrEmpty(opt) == IF opt = None THEN << >> ELSE opt[1]

(***************************************************************************)
(* Inputs: job descriptions and profile items                              *)
(***************************************************************************)
\* the empty job description
JD_EMPTY ==
    << >>

\* the job description of the scorer's tests: "python" twice, a "Required:"
\* list and an "Experience with" phrase
JD_SAMPLE ==
    <<"S","e","n","i","o","r"," ","P","y","t","h","o","n"," ","D","e","v","e",
      "l","o","p","e","r","\n","\n","W","e"," ","a","r","e"," ","l","o","o",
      "k","i","n","g"," ","f","o","r"," ","a"," ","s","o","f","t","w","a","r",
      "e"," ","e","n","g","i","n","e","e","r"," ","w","i","t","h"," ","s","t",
      "r","o","n","g"," ","P","y","t","h","o","n"," ","s","k","i","l","l","s",
      ".","\n","R","e","q","u","i","r","e","d",":"," ","D","j","a","n","g",
      "o",","," ","F","a","s","t","A","P","I",","," ","P","o","s","t","g","r",
      "e","S","Q","L",".","\n","E","x","p","e","r","i","e","n","c","e"," ",
      "w","i","t","h"," ","A","W","S"," ","i","s"," ","a"," ","p","l","u","s",
      ".">>

\* a posting whose first line has 99 characters, the first of them U+0130;
\* "python" three times and a "Must have:" list
JD_UPPER ==
    <<"I-dot-above","s","t","a","n","b","u","l"," ","o","f","f","i","c","e",
      " ","s","e","e","k","s"," ","a"," ","S","e","n","i","o","r"," ","P","y",
      "t","h","o","n"," ","D","e","v","e","l","o","p","e","r"," ","t","o"," ",
      "b","u","i","l","d"," ","D","j","a","n","g","o"," ","s","e","r","v","i",
      "c","e","s"," ","f","o","r"," ","t","h","e"," ","p","a","y","m","e","n",
      "t","s"," ","p","l","a","t","f","o","r","m","s","\n","M","u","s","t",
      " ","h","a","v","e",":"," ","P","y","t","h","o","n",","," ","S","Q","L",
      "."," ","P","y","t","h","o","n"," ","d","a","i","l","y",".">>

\* the same posting typed in lower case: its first line has 100 characters
JD_LOWER == StrLower(JD_UPPER)

JOB_DESCRIPTIONS == { JD_EMPTY, JD_SAMPLE, JD_UPPER, JD_LOWER }

\* a posting that repeats itself: "python" six times, once before three
\* periods, and "django" once
JD_PYTHON ==
    <<"P","y","t","h","o","n"," ","e","n","g","i","n","e","e","r","\n","P",
      "y","t","h","o","n",","," ","P","y","t","h","o","n"," ","a","n","d",
      " ","m","o","r","e"," ","P","y","t","h","o","n",".",".","."," ","P",
      "y","t","h","o","n"," ","d","a","i","l","y","."," ","P","y","t","h",
      "o","n"," ","a","n","d"," ","D","j","a","n","g","o",".">>

\* the job descriptions the single scorers are tried on
SCORE_JDS == JOB_DESCRIPTIONS \cup { JD_PYTHON }

EXPERIENCE_1 ==
    [ id              |-> "e2",
      title           |-> <<"C","h","e","f">>,
      company         |-> <<"F","o","o","d"," ","I","n","c">>,
      description     |-> <<"C","o","o","k","e","d"," ","m","e","a","l","s",".">>,
      highlights      |-> << >>,
      keywords        |-> << <<"C","o","o","k","i","n","g">>,
                         <<"M","a","n","a","g","e","m","e","n","t">> >>,
      current         |-> FALSE,
      relevance_score |-> ZERO ]

EXPERIENCE_2 ==
    [ id              |-> "e1",
      title           |-> <<"S","e","n","i","o","r"," ","P","y","t","h","o","n",
                        " ","D","e","v","e","l","o","p","e","r">>,
      company         |-> <<"T","e","c","h"," ","C","o","r","p">>,
      description     |-> <<"B","u","i","l","t"," ","A","P","I","s"," ","u","s",
                        "i","n","g"," ","F","a","s","t","A","P","I"," ","a",
                        "n","d"," ","D","j","a","n","g","o",".">>,
      highlights      |-> << <<"R","e","d","u","c","e","d"," ","l","a","t","e",
                           "n","c","y"," ","b","y"," ","5","0","%">> >>,
      keywords        |-> << <<"P","y","t","h","o","n">>,
                         <<"F","a","s","t","A","P","I">>,
                         <<"D","j","a","n","g","o">> >>,
      current         |-> TRUE,
      relevance_score |-> ZERO ]

EXPERIENCE_3 ==
    [ id              |-> "e3",
      title           |-> <<"A","n","a","l","y","s","t">>,
      company         |-> << >>,
      description     |-> <<"P","y","t","h","o","n"," ","D","j","a","n","g","o",
                        " ","S","Q","L">>,
      highlights      |-> << >>,
      keywords        |-> << >>,
      current         |-> FALSE,
      relevance_score |-> ZERO ]

EXPERIENCE_4 ==
    [ id              |-> "e4",
      title           |-> << >>,
      company         |-> << >>,
      description     |-> << >>,
      highlights      |-> << >>,
      keywords        |-> << >>,
      current         |-> FALSE,
      relevance_score |-> ZERO ]

PROJECT_1 ==
    [ id              |-> "p2",
      name            |-> <<"B","l","o","g">>,
      description     |-> <<"A"," ","s","i","t","e"," ","b","u","i","l","t"," ",
                        "w","i","t","h"," ","R","e","a","c","t",".">>,
      technologies    |-> << <<"R","e","a","c","t">> >>,
      highlights      |-> << >>,
      relevance_score |-> ZERO ]

PROJECT_2 ==
    [ id              |-> "p1",
      name            |-> <<"E","-","c","o","m","m","e","r","c","e"," ","S","i",
                        "t","e">>,
      description     |-> <<"A"," ","s","i","t","e"," ","b","u","i","l","t"," ",
                        "w","i","t","h"," ","D","j","a","n","g","o"," ","a",
                        "n","d"," ","R","e","a","c","t",".">>,
      technologies    |-> << <<"D","j","a","n","g","o">>,
                         <<"R","e","a","c","t">>,
                         <<"P","o","s","t","g","r","e","S","Q","L">> >>,
      highlights      |-> << <<"H","a","n","d","l","e","d"," ","1","k"," ","u",
                           "s","e","r","s">> >>,
      relevance_score |-> ZERO ]

PROJECT_3 ==
    [ id              |-> "p3",
      name            |-> <<"B","l","o","g">>,
      description     |-> <<"A"," ","s","i","t","e"," ","b","u","i","l","t"," ",
                        "w","i","t","h"," ","R","e","a","c","t",".">>,
      technologies    |-> << <<"D","j","a","n","g","o">> >>,
      highlights      |-> << >>,
      relevance_score |-> ZERO ]

PROJECT_4 ==
    [ id              |-> "p4",
      name            |-> << >>,
      description     |-> << >>,
      technologies    |-> << >>,
      highlights      |-> << >>,
      relevance_score |-> ZERO ]

\* a project that is its technologies
PROJECT_5 ==
    [ id              |-> "p5",
      name            |-> <<"P","y","t","h","o","n">>,
      description     |-> << >>,
      technologies    |-> << <<"P","y","t","h","o","n">>,
                         <<"D","j","a","n","g","o">> >>,
      highlights      |-> << >>,
      relevance_score |-> ZERO ]

SKILL_1 ==
    [ id              |-> "s2",
      name            |-> <<"J","a","v","a">>,
      category        |-> <<"L","a","n","g","u","a","g","e">>,
      proficiency     |-> Some(<<"I","n","t","e","r","m","e","d","i","a","t","e">>),
      relevance_score |-> ZERO ]

SKILL_2 ==
    [ id              |-> "s4",
      name            |-> <<"P","y","t","h","o","n">>,
      category        |-> <<"L","a","n","g","u","a","g","e">>,
      proficiency     |-> None,
      relevance_score |-> ZERO ]

SKILL_3 ==
    [ id              |-> "s1",
      name            |-> <<"P","y","t","h","o","n">>,
      category        |-> <<"L","a","n","g","u","a","g","e">>,
      proficiency     |-> Some(<<"E","x","p","e","r","t">>),
      relevance_score |-> ZERO ]

SKILL_4 ==
    [ id              |-> "s6",
      name            |-> << >>,
      category        |-> << >>,
      proficiency     |-> None,
      relevance_score |-> ZERO ]

SKILL_5 ==
    [ id              |-> "s5",
      name            |-> <<"S","Q","L">>,
      category        |-> <<"L","a","n","g","u","a","g","e">>,
      proficiency     |-> Some(<<"E","X","P","E","R","T">>),
      relevance_score |-> ZERO ]

SKILL_6 ==
    [ id              |-> "s3",
      name            |-> <<"D","j","a","n","g","o">>,
      category        |-> <<"F","r","a","m","e","w","o","r","k">>,
      proficiency     |-> None,
      relevance_score |-> ZERO ]

EDUCATION_1 ==
    [ id              |-> "edu2",
      institution     |-> <<"C","u","l","i","n","a","r","y"," ","S","c","h","o",
                        "o","l">>,
      degree          |-> <<"D","i","p","l","o","m","a">>,
      field           |-> <<"C","o","o","k","i","n","g">>,
      honors          |-> << >>,
      relevance_score |-> ZERO ]

EDUCATION_2 ==
    [ id              |-> "edu1",
      institution     |-> <<"U","n","i","v","e","r","s","i","t","y"," ","o","f",
                        " ","T","e","c","h">>,
      degree          |-> <<"B","S">>,
      field           |-> <<"C","o","m","p","u","t","e","r"," ","S","c","i","e",
                        "n","c","e">>,
      honors          |-> << >>,
      relevance_score |-> ZERO ]

EDUCATION_3 ==
    [ id              |-> "edu3",
      institution     |-> <<"P","y","t","h","o","n"," ","I","n","s","t","i","t",
                        "u","t","e">>,
      degree          |-> <<"M","S">>,
      field           |-> <<"S","o","f","t","w","a","r","e"," ","E","n","g","i",
                        "n","e","e","r","i","n","g">>,
      honors          |-> << <<"P","y","t","h","o","n"," ","a","w","a","r","d">> >>,
      relevance_score |-> ZERO ]

EDUCATION_4 ==
    [ id              |-> "edu4",
      institution     |-> << >>,
      degree          |-> << >>,
      field           |-> << >>,
      honors          |-> << >>,
      relevance_score |-> ZERO ]

PUBLICATION_1 ==
    [ id              |-> "pub2",
      title           |-> <<"B","r","e","a","d">>,
      venue           |-> <<"F","o","o","d"," ","W","e","e","k","l","y">>,
      abstract        |-> None,
      relevance_score |-> ZERO ]

PUBLICATION_2 ==
    [ id              |-> "pub1",
      title           |-> <<"M","o","d","e","r","n"," ","P","y","t","h","o","n",
                        " ","P","r","a","c","t","i","c","e","s">>,
      venue           |-> <<"P","y","C","o","n">>,
      abstract        |-> Some(<<"B","e","s","t"," ","p","r","a","c","t","i","c",
                             "e","s"," ","f","o","r"," ","P","y","t","h","o",
                             "n"," ","d","e","v","e","l","o","p","m","e","n",
                             "t",".">>),
      relevance_score |-> ZERO ]

PUBLICATION_3 ==
    [ id              |-> "pub3",
      title           |-> <<"P","y","t","h","o","n">>,
      venue           |-> <<"P","y","t","h","o","n"," ","d","e","v","e","l","o",
                        "p","e","r"," ","d","a","y","s">>,
      abstract        |-> Some(<< >>),
      relevance_score |-> ZERO ]

PUBLICATION_4 ==
    [ id              |-> "pub4",
      title           |-> << >>,
      venue           |-> << >>,
      abstract        |-> None,
      relevance_score |-> ZERO ]

\* the items a profile is made of, per category, in the order of its lists
ITEM_POOL ==
    [ experiences  |-> << EXPERIENCE_1, EXPERIENCE_2, EXPERIENCE_3, EXPERIENCE_4 >>,
      projects     |-> << PROJECT_1, PROJECT_2, PROJECT_3, PROJECT_4,
                         PROJECT_5 >>,
      skills       |-> << SKILL_1, SKILL_2, SKILL_3, SKILL_4, SKILL_5, SKILL_6 >>,
      educations   |-> << EDUCATION_1, EDUCATION_2, EDUCATION_3, EDUCATION_4 >>,
      publications |-> << PUBLICATION_1, PUBLICATION_2, PUBLICATION_3, PUBLICATION_4 >> ]

\* the text score_experience tokenizes
ExperienceBlob(exp) ==
    Join(<< exp.title, exp.company, exp.description,
            Join(exp.highlights), Join(exp.keywords) >>)

\* the text score_project tokenizes
ProjectBlob(proj) ==
    Join(<< proj.name, proj.description,
            Join(proj.technologies), Join(proj.highlights) >>)

\* the text score_education tokenizes
EducationBlob(edu) ==
    Join(<< edu.institution, edu.degree, edu.field, Join(edu.honors) >>)

\* the text score_publication tokenizes
PublicationBlob(pub) ==
    Join(<< pub.title, pub.venue, OrEmpty(pub.abstract) >>)

(***************************************************************************)
(* The pure functions of the texts above are computed once and looked up:  *)
(* a text that is not tabulated is computed on the spot.                   *)
(***************************************************************************)
\* the tabulated value of a key, the computed one of any other key
Lookup(table, key, computed) ==
    IF key \in DOMAIN table THEN table[key] ELSE computed

ANALYSES == Tabulated([jd \in SCORE_JDS |-> AnalyzeText(jd)])

\* RelevanceScorer.__init__ on an instance that is not initialized yet
Analyze(jd) == Lookup(ANALYSES, jd, AnalyzeText(jd))

LOWERED == Tabulated([jd \in SCORE_JDS |-> StrLower(jd)])

\* job_description.lower()
JdLower(jd) == Lookup(LOWERED, jd, StrLower(jd))

PoolItems(c) == Range(ITEM_POOL[c])

TOKENIZED_TEXTS ==
    { ExperienceBlob(x) : x \in PoolItems("experiences") }
      \cup { x.title : x \in PoolItems("experiences") }
      \cup { ProjectBlob(x) : x \in PoolItems("projects") }
      \cup { EducationBlob(x) : x \in PoolItems("educations") }
      \cup { PublicationBlob(x) : x \in PoolItems("publications") }
      \cup { ANALYSES[jd].job_title : jd \in SCORE_JDS }

TOKENS == Tabulated([text \in TOKENIZED_TEXTS |-> TokenizeText(text)])

\* self._tokenize(text)
Tokenize(text) == Lookup(TOKENS, text, TokenizeText(text))

(***************************************************************************)
(* RelevanceScorer: scoring helpers                                      *)
(***************************************************************************)
RECURSIVE SumFreq(_, _)
\* the sum of the job description frequencies of a set of tokens
SumFreq(freq, tokens) ==
    IF tokens = {} THEN 0
    ELSE LET t == CHOOSE x \in tokens : TRUE
         IN  freq[t] + SumFreq(freq, tokens \ {t})

\* the loop "for token in tokens: if token in self.jd_keyword_freq": the
\* tokens matched (a list in set iteration order, kept as a set)
Matched(self, tokens) == tokens \cap DOMAIN self.jd_keyword_freq

\* ScoredItem(item=..., score=..., matched_keywords=...); the item is a
\* reference, kept as the item's position in its list of the profile
ScoredItem(item, score, matched) ==
    [item |-> item, score |-> score, matched_keywords |-> matched]

(***************************************************************************)
(* RelevanceScorer: the five scorers. Each yields the score and the        *)
(* matched keywords; the operations below store the score in the item.     *)
(***************************************************************************)
\* "score *= boost" under a condition
BoostIf(cond, num, boost) == IF cond THEN Boost(num, boost) ELSE num

\* "if len(tokens) > 0: score = score / (len(tokens) ** 0.5)"
Normalize(num, n) == MkScore(num, IF n > 0 THEN n ELSE 1)

\* the loop "for token in tokens: if token in self.jd_keyword_freq:
\* score += self.jd_keyword_freq[token]; matched.append(token)"
KeywordOverlap(self, tokens) ==
    [ n       |-> Cardinality(tokens),
      matched |-> Matched(self, tokens),
      total   |-> SumFreq(self.jd_keyword_freq, Matched(self, tokens)) ]

\* "if self.job_title: ... if title_tokens & jd_title_tokens"
TitleMatch(self, exp) ==
    /\ self.job_title # << >>
    /\ SeqToSet(Tokenize(exp.title))
         \cap SeqToSet(Tokenize(self.job_title)) # {}

\* score_experience, from the keyword overlap on
ExperienceScore(self, exp, overlap) ==
    [ score   |-> Normalize(
                    BoostIf(exp.current,
                            BoostIf(TitleMatch(self, exp),
                                    Hundredths(overlap.total),
                                    TITLE_MATCH_BOOST),
                            RECENCY_BOOST),
                    overlap.n),
      matched |-> overlap.matched ]

\* RelevanceScorer.score_experience
score_experience(self, exp) ==
    ExperienceScore(self, exp,
        KeywordOverlap(self, SeqToSet(Tokenize(ExperienceBlob(exp)))))

\* "tech_tokens = set(t.lower() for t in proj.technologies);
\* tech_matches = tech_tokens & set(self.jd_keyword_freq.keys())"
TechMatches(self, proj) ==
    { Str(StrLower(proj.technologies[i])) : i \in DOMAIN proj.technologies }
      \cap DOMAIN self.jd_keyword_freq

\* score_project, from the keyword overlap on
ProjectScore(self, proj, overlap) ==
    [ score   |-> Normalize(
                    Hundredths(overlap.total
                        + Cardinality(TechMatches(self, proj))
                            * TECH_MATCH_WEIGHT),
                    overlap.n),
      matched |-> overlap.matched ]

\* RelevanceScorer.score_project
score_project(self, proj) ==
    ProjectScore(self, proj,
        KeywordOverlap(self, SeqToSet(Tokenize(ProjectBlob(proj)))))

\* a variant of IsExpert that compares the proficiency as it is written,
\* without lower(): SkillScoreFormula tells the two apart
IsExpertAsWritten(skill) ==
    /\ skill.proficiency # None
    /\ skill.proficiency[1] = <<"e","x","p","e","r","t">>

\* "skill.proficiency and skill.proficiency.lower() == 'expert'"
IsExpert(skill) ==
    /\ skill.proficiency # None
    /\ skill.proficiency[1] # << >>
    /\ StrLower(skill.proficiency[1]) = <<"e","x","p","e","r","t">>

\* score_skill, from "skill_name_lower = skill.name.lower()" on: exact says
\* that the name is a keyword of the job description, partial that it is
\* not but is a substring of the job description
SkillScore(self, skill, name, exact, partial) ==
    [ score   |-> MkScore(
                    BoostIf(IsExpert(skill),
                        BoostIf(name \in self.required_skills,
                            IF exact
                            THEN Boost(Hundredths(self.jd_keyword_freq[name]),
                                       SKILL_EXACT_MATCH_BOOST)
                            ELSE IF partial THEN Hundredths(SUBSTRING_SCORE)
                            ELSE 0,
                            REQUIRED_SKILL_BOOST),
                        EXPERT_BOOST),
                    1),
      matched |-> IF exact \/ partial THEN {name} ELSE {} ]

\* the two tests of score_skill's if/elif on the lower-cased name
SkillMatch(self, skill, skill_name_lower, name) ==
    SkillScore(self, skill, name,
        name \in DOMAIN self.jd_keyword_freq,
        /\ name \notin DOMAIN self.jd_keyword_freq
        /\ IsSubstring(skill_name_lower, self.job_description))

\* RelevanceScorer.score_skill
score_skill(self, skill) ==
    SkillMatch(self, skill, StrLower(skill.name), Str(StrLower(skill.name)))

\* score_education and score_publication, from the keyword overlap on
OverlapScore(overlap) ==
    [ score   |-> MkScore(Hundredths(overlap.total), 1),
      matched |-> overlap.matched ]

\* RelevanceScorer.score_education
score_education(self, edu) ==
    OverlapScore(KeywordOverlap(self, SeqToSet(Tokenize(EducationBlob(edu)))))

\* RelevanceScorer.score_publication
score_publication(self, pub) ==
    OverlapScore(
        KeywordOverlap(self, SeqToSet(Tokenize(PublicationBlob(pub)))))

\* the keys of the dictionaries score_profile and select_top_items return,
\* which are the names of the profile's item lists
CATEGORIES ==
    {"experiences", "projects", "skills", "educations", "publications"}

\* the scorer score_profile applies to the items of a category
ScoreItem(self, category, item) ==
    CASE category = "experiences"  -> score_experience(self, item)
      [] category = "projects"     -> score_project(self, item)
      [] category = "skills"       -> score_skill(self, item)
      [] category = "educations"   -> score_education(self, item)
      [] category = "publications" -> score_publication(self, item)

\* the ScoredItem a scorer returns for the item at position i
Scored(i, r) == ScoredItem(i, r.score, r.matched)

\* [self.score_x(item) for item in items], for every category: the
\* ScoredItems in the order of the profile's lists
ScoreAll(self, prof) ==
    Tabulated([c \in CATEGORIES |->
        Tabulated([i \in DOMAIN prof[c] |->
            Scored(i, ScoreItem(self, c, prof[c][i]))])])

\* a variant of SortedByScore that leaves the list in the order of the
\* profile: HighestFirst tells the two apart
InProfileOrder(scored) == scored

\* sorted(scored, key=lambda x: x.score, reverse=True): a stable sort, so
\* that items of equal score keep the order they had. The place of element i
\* is one more than the number of elements that come before it.
SortedByScore(scored) ==
    LET Before(j, i) ==
            \/ ScoreLess(scored[i].score, scored[j].score)
            \/ ScoreEq(scored[i].score, scored[j].score) /\ j < i
        Place(i) == 1 + Cardinality({ j \in DOMAIN scored : Before(j, i) })
    IN  Tabulated([p \in DOMAIN scored |->
            scored[CHOOSE i \in DOMAIN scored : Place(i) = p]])

\* RelevanceScorer.score_profile: the value returned, given the ScoredItems
\* its list comprehensions built
score_profile(all) ==
    Tabulated([c \in CATEGORIES |-> SortedByScore(all[c])])

\* a variant of ProfileScored in which the scorers store nothing in the
\* items: ScoreStored tells the two apart
ProfileUntouched(prof, all) == prof

\* a variant of ProfileScored in which the lists of the profile are sorted
\* in place, as list.sort would: ScoringChangesScoresOnly tells the two
\* apart
ProfileSortedInPlace(prof, all) ==
    Tabulated([c \in CATEGORIES |->
        Tabulated([p \in DOMAIN prof[c] |->
            [prof[c][SortedByScore(all[c])[p].item] EXCEPT
                !.relevance_score = SortedByScore(all[c])[p].score]])])

\* the profile after score_profile: every scorer has stored the score in
\* the item it scored ("item.relevance_score = score")
ProfileScored(prof, all) ==
    Tabulated([c \in CATEGORIES |->
        Tabulated([i \in DOMAIN prof[c] |->
            [prof[c][i] EXCEPT !.relevance_score = all[c][i].score]])])

\* a variant of SliceTo that takes one element too many, s[:k + 1] for a
\* k >= 0: CapRespected tells the two apart
SliceThrough(s, k) ==
    IF k >= 0
    THEN SubSeq(s, 1, IF k + 1 < Len(s) THEN k + 1 ELSE Len(s))
    ELSE SubSeq(s, 1, IF Len(s) + k > 0 THEN Len(s) + k ELSE 0)

\* s[:k] for a list s: a negative k counts from the end
SliceTo(s, k) ==
    IF k >= 0
    THEN SubSeq(s, 1, IF k < Len(s) THEN k ELSE Len(s))
    ELSE SubSeq(s, 1, IF Len(s) + k > 0 THEN Len(s) + k ELSE 0)

\* [s.item for s in top]
Items(top) == Tabulated([i \in DOMAIN top |-> top[i].item])

\* RelevanceScorer.select_top_items: the value returned, given what
\* "scored = self.score_profile(profile)" returned; each item is a
\* reference into the profile
select_top_items(scored, caps) ==
    Tabulated([c \in CATEGORIES |-> Items(SliceTo(scored[c], caps[c]))])


(***************************************************************************)
(* redis_cache: the RedisClient wrapper and the cache operations. A client *)
(* is [client, status, consecutive_failures], client saying that _client   *)
(* is set; the server is [up, data], data being the values stored by key.  *)
(* An operation yields the client after it together with what it returns.  *)
(***************************************************************************)
HEALTHY == "healthy"

DEGRADED == "degraded"

UNAVAILABLE == "unavailable"

\* RedisClient._max_failures_before_degraded
MAX_FAILURES_BEFORE_DEGRADED == 3

\* RedisClient._max_failures_before_unavailable
MAX_FAILURES_BEFORE_UNAVAILABLE == 10

\* RedisClient.__init__
NewRedisClient ==
    [ client |-> FALSE, status |-> UNAVAILABLE, consecutive_failures |-> 0 ]

\* the status changes one failure late
update_status_late(rc) ==
    IF rc.consecutive_failures > MAX_FAILURES_BEFORE_UNAVAILABLE
    THEN [rc EXCEPT !.status = UNAVAILABLE]
    ELSE IF rc.consecutive_failures > MAX_FAILURES_BEFORE_DEGRADED
         THEN [rc EXCEPT !.status = DEGRADED]
         ELSE rc

\* RedisClient._update_status
update_status(rc) ==
    IF rc.consecutive_failures >= MAX_FAILURES_BEFORE_UNAVAILABLE
    THEN [rc EXCEPT !.status = UNAVAILABLE]
    ELSE IF rc.consecutive_failures >= MAX_FAILURES_BEFORE_DEGRADED
         THEN [rc EXCEPT !.status = DEGRADED]
         ELSE rc

\* RedisClient.record_failure
record_failure(rc) ==
    update_status([rc EXCEPT !.consecutive_failures = @ + 1])

\* RedisClient.record_success
record_success(rc) ==
    IF rc.consecutive_failures > 0
    THEN [rc EXCEPT !.consecutive_failures = 0, !.status = HEALTHY]
    ELSE rc

\* the cache is always taken for available
is_available_always(rc) == TRUE

\* RedisClient.is_available
is_available(rc) == rc.status # UNAVAILABLE

\* a client that gave up goes on trying
GivenUpNever(rc) == FALSE

\* "if self._status == CacheStatus.UNAVAILABLE and
\* self._consecutive_failures >= self._max_failures_before_unavailable":
\* the client does not even try
GivenUp(rc) ==
    /\ rc.status = UNAVAILABLE
    /\ rc.consecutive_failures >= MAX_FAILURES_BEFORE_UNAVAILABLE

\* RedisClient.get_client: the client after the call, whether a
\* connection was returned, and whether one was attempted (from_url and the
\* test ping). redis_url says that settings.redis_url is set, up that the
\* server answers.
get_client(rc, redis_url, up) ==
    IF GivenUp(rc)
    THEN [rc |-> rc, connection |-> FALSE, attempted |-> FALSE]
    ELSE IF rc.client
    THEN [rc |-> rc, connection |-> TRUE, attempted |-> FALSE]
    ELSE IF ~redis_url
    THEN [rc |-> [rc EXCEPT !.status = UNAVAILABLE], connection |-> FALSE,
          attempted |-> FALSE]
    ELSE IF up
    THEN [rc |-> [rc EXCEPT !.client = TRUE, !.status = HEALTHY,
                            !.consecutive_failures = 0],
          connection |-> TRUE, attempted |-> TRUE]
    ELSE [rc |-> [record_failure(rc) EXCEPT !.client = FALSE],
          connection |-> FALSE, attempted |-> TRUE]

\* a call reached the Redis server: the connection was attempted, or a
\* command was sent over the connection returned
Contacted(got) == got.attempted \/ got.connection

\* RedisClient.ping, past get_client
Pinged(got, up) ==
    IF ~got.connection
    THEN [rc |-> got.rc, value |-> FALSE, contacted |-> Contacted(got)]
    ELSE IF up
    THEN [rc |-> record_success(got.rc), value |-> TRUE,
          contacted |-> Contacted(got)]
    ELSE [rc |-> record_failure(got.rc), value |-> FALSE,
          contacted |-> Contacted(got)]

\* RedisClient.ping
ping(rc, redis_url, up) == Pinged(get_client(rc, redis_url, up), up)

\* RedisClient.close
close(rc) ==
    IF rc.client THEN [rc EXCEPT !.client = FALSE, !.status = UNAVAILABLE]
    ELSE rc

\* hashlib.sha256(job_description.encode()).hexdigest()[:16]: the digest
\* stands for the text it is the digest of, letter case included
JdHash(jd) == jd

\* generate_cache_key
generate_cache_key(user_id, jd, prefix) ==
    << "cvwiz", prefix, user_id, JdHash(jd) >>

\* get_cached, past get_client
GotCached(got, srv, key) ==
    IF ~got.connection
    THEN [rc |-> got.rc, value |-> None, contacted |-> Contacted(got)]
    ELSE IF ~srv.up
    THEN [rc |-> record_failure(got.rc), value |-> None,
          contacted |-> Contacted(got)]
    ELSE IF key \in DOMAIN srv.data
    THEN [rc |-> record_success(got.rc), value |-> Some(srv.data[key]),
          contacted |-> Contacted(got)]
    ELSE [rc |-> got.rc, value |-> None, contacted |-> Contacted(got)]

\* get_cached without its test of is_available
get_cached_unchecked(rc, redis_url, srv, key) ==
    GotCached(get_client(rc, redis_url, srv.up), srv, key)

\* get_cached: the client after the call and the value returned
get_cached(rc, redis_url, srv, key) ==
    IF ~is_available(rc)
    THEN [rc |-> rc, value |-> None, contacted |-> FALSE]
    ELSE GotCached(get_client(rc, redis_url, srv.up), srv, key)

\* the data of the server after client.set(key, value)
DataSet(data, key, value) ==
    [k \in DOMAIN data \cup {key} |-> IF k = key THEN value ELSE data[k]]

\* set_cached, past get_client
SetCached(got, srv, key, value) ==
    IF ~got.connection
    THEN [rc |-> got.rc, srv |-> srv, value |-> FALSE,
          contacted |-> Contacted(got)]
    ELSE IF ~srv.up
    THEN [rc |-> record_failure(got.rc), srv |-> srv, value |-> FALSE,
          contacted |-> Contacted(got)]
    ELSE [rc |-> record_success(got.rc),
          srv |-> [srv EXCEPT !.data = DataSet(srv.data, key, value)],
          value |-> TRUE, contacted |-> Contacted(got)]

\* set_cached: the client and the server after the call and the value
\* returned
set_cached(rc, redis_url, srv, key, value) ==
    IF ~is_available(rc)
    THEN [rc |-> rc, srv |-> srv, value |-> FALSE, contacted |-> FALSE]
    ELSE SetCached(get_client(rc, redis_url, srv.up), srv, key, value)

\* the keys that match the pattern "cvwiz:{prefix}:{user_id}:*"
Matching(data, pattern) ==
    { k \in DOMAIN data : k[2] = pattern.prefix /\ k[3] = pattern.user_id }

\* invalidate_cache, past get_client: the keys scan_iter yields are
\* deleted, and a success is recorded if any was
Invalidated(got, srv, pattern) ==
    IF ~got.connection
    THEN [rc |-> got.rc, srv |-> srv, value |-> 0,
          contacted |-> Contacted(got)]
    ELSE IF ~srv.up
    THEN [rc |-> record_failure(got.rc), srv |-> srv, value |-> 0,
          contacted |-> Contacted(got)]
    ELSE [rc |-> IF Matching(srv.data, pattern) # {}
                 THEN record_success(got.rc) ELSE got.rc,
          srv |-> [srv EXCEPT !.data =
                     [k \in DOMAIN @ \ Matching(@, pattern) |-> @[k]]],
          value |-> Cardinality(Matching(srv.data, pattern)),
          contacted |-> Contacted(got)]

\* invalidate_cache: the client and the server after the call and the
\* number of keys deleted
invalidate_cache(rc, redis_url, srv, pattern) ==
    IF ~is_available(rc)
    THEN [rc |-> rc, srv |-> srv, value |-> 0, contacted |-> FALSE]
    ELSE Invalidated(get_client(rc, redis_url, srv.up), srv, pattern)

(***************************************************************************)
(* ResumeCompiler: templates, the compiled resume and the response         *)
(***************************************************************************)
\* the members of the Literal TemplateType
TEMPLATE_TYPES ==
    { "experience-skills-projects", "education-research-skills",
      "projects-skills-experience", "compact-technical" }

DEFAULT_TEMPLATE == "experience-skills-projects"

\* TEMPLATE_CONFIGS: the max_* entries of every template, by the category
\* select_top_items applies them to
TEMPLATE_CONFIGS ==
    ("experience-skills-projects" :>
        [ experiences |-> 3, projects |-> 2, skills |-> 12, educations |-> 1,
          publications |-> 0 ])
    @@ ("education-research-skills" :>
        [ experiences |-> 2, projects |-> 1, skills |-> 10, educations |-> 2,
          publications |-> 3 ])
    @@ ("projects-skills-experience" :>
        [ experiences |-> 2, projects |-> 4, skills |-> 10, educations |-> 1,
          publications |-> 0 ])
    @@ ("compact-technical" :>
        [ experiences |-> 2, projects |-> 2, skills |-> 15, educations |-> 1,
          publications |-> 0 ])

\* "if template is None: template_val = profile.settings.selected_template
\* if profile.settings else 'experience-skills-projects'; else: template_val
\* = template"
TemplateVal(template, settings) ==
    IF template # None THEN template[1]
    ELSE IF settings # None THEN settings[1].selected_template
    ELSE DEFAULT_TEMPLATE

\* TEMPLATE_CONFIGS.get(str(template_val),
\*                      TEMPLATE_CONFIGS["experience-skills-projects"])
ConfigOf(template_val) ==
    IF template_val \in DOMAIN TEMPLATE_CONFIGS
    THEN TEMPLATE_CONFIGS[template_val]
    ELSE TEMPLATE_CONFIGS[DEFAULT_TEMPLATE]

\* CompiledResume(experiences=selected["experiences"], ...,
\* template=template_val, job_title=scorer.job_title or None), for a
\* template the model's validation accepts; the items are references
CompiledResume(selected, template_val, job_title) ==
    [ experiences  |-> selected.experiences,
      projects     |-> selected.projects,
      educations   |-> selected.educations,
      skills       |-> selected.skills,
      publications |-> selected.publications,
      template     |-> template_val,
      job_title    |-> IF job_title = << >> THEN None ELSE Some(job_title) ]

\* what became of the PDF: generated, failed with an exception, or not
\* attempted because there is no generator
GENERATED == "generated"

FAILED == "failed"

NO_GENERATOR == "no generator"

\* the outcomes of the PDF step of a compiler whose generator is or is not
\* available
PdfOutcomes(pdf_available) ==
    IF pdf_available THEN {GENERATED, FAILED} ELSE {NO_GENERATOR}

\* ResumeResponse(success=True, pdf_base64=pdf_base64, resume_json=compiled,
\* error=response_error)
Response(compiled, pdf) ==
    [ success     |-> TRUE,
      pdf_base64  |-> IF pdf = GENERATED THEN Some("pdf") ELSE None,
      resume_json |-> Some(compiled),
      error       |-> IF pdf = GENERATED THEN None
                      ELSE Some("PDF generation failed: " \o pdf) ]

\* ResumeResponse(success=False, error=str(e))
Failure(error) ==
    [ success     |-> FALSE,
      pdf_base64  |-> None,
      resume_json |-> None,
      error       |-> Some(error) ]

\* the items a list of references stands for, by value
ItemsDumped(refs, items) ==
    Tabulated([i \in DOMAIN refs |-> items[refs[i]]])

\* response.model_dump(mode="json"): every model becomes the dictionary of
\* its fields, so the items are written by value, as they are in the
\* profile when the response is dumped
ModelDump(response, prof) ==
    [response EXCEPT !.resume_json[1] =
        [k \in DOMAIN @ |->
            IF k \in CATEGORIES THEN ItemsDumped(@[k], prof[k]) ELSE @[k]]]

\* ResumeResponse(**cached) validates the dictionary: the template of a
\* resume has to be a TemplateType
ValidCached(cached) ==
    \/ cached.resume_json = None
    \/ cached.resume_json[1].template \in TEMPLATE_TYPES

(***************************************************************************)
(* Inputs: profiles and caps                                               *)
(***************************************************************************)
\* the largest profile: every category holds at most this many items
MaxItems == 4

\* the largest cap select_top_items is called with
MaxCap == 3

\* the caps go down to -MaxNegCap
MaxNegCap == 2

\* the first n items of a list
Take(s, n) == SubSeq(s, 1, IF n < Len(s) THEN n ELSE Len(s))

\* the user profiles: the first n items of every pool
PROFILES ==
    { [c \in CATEGORIES |-> Take(ITEM_POOL[c], n)] : n \in 0..MaxItems }

\* the default arguments of select_top_items
DEFAULT_CAPS ==
    [ experiences |-> 3, projects |-> 2, skills |-> 10, educations |-> 2,
      publications |-> 2 ]

\* the max_* arguments select_top_items is called with: the defaults, the
\* same cap for every category, and the caps of the templates
CAPS_INPUTS ==
    {DEFAULT_CAPS}
      \cup { [c \in CATEGORIES |-> k] : k \in (0 - MaxNegCap)..MaxCap }
      \cup Range(TEMPLATE_CONFIGS)

(***************************************************************************)
(* Inputs: threads and numbered job descriptions                           *)
(***************************************************************************)
\* the threads that call RelevanceScorer(jd) side by side
THREADS == { "thread-1", "thread-2" }

\* the constructions a thread makes
MaxCalls == 2

\* a thread outside RelevanceScorer(jd)
NewThread ==
    [pc |-> "idle", jd |-> << >>, instance |-> None, calls |-> 0, step |-> 0]

DIGITS_IN_ORDER == <<"0","1","2","3","4","5","6","7","8","9">>

\* str(n)
RECURSIVE DecimalOf(_)
DecimalOf(n) ==
    IF n < 10
    THEN << DIGITS_IN_ORDER[n + 1] >>
    ELSE DecimalOf(n \div 10) \o << DIGITS_IN_ORDER[(n % 10) + 1] >>

\* f"Job description number {i}"
NumberedJd(i) ==
    <<"J","o","b"," ","d","e","s","c","r","i","p","t","i","o","n"," ","n",
      "u","m","b","e","r"," ">> \o DecimalOf(i)

(***************************************************************************)
(* State                                                                   *)
(***************************************************************************)
VARIABLES
    cache,    \* RelevanceScorer._cache: the entries [key, instance] in the
              \* order they were inserted (a dict keeps insertion order)
    scorer,   \* the RelevanceScorer the caller holds, None before the
              \* first construction: [self, requested], requested being the
              \* job description the caller passed to the constructor
    profile,  \* the UserProfile: per category the list of its items
    ret,      \* what the last call returned, with the call's arguments;
              \* for a call on a scorer, requested is the job description
              \* that scorer was constructed for
    user,     \* the UserProfile's id and settings
    config,   \* the process: whether settings.redis_url is set and whether
              \* the PDF generator is available
    redis,    \* redis_cache.redis_client
    server,   \* the Redis server: whether it answers, and its data
    in_flight, \* RequestDeduplicator._in_flight: by cache key, the entry
              \* [future, timestamp]
    futures,  \* the futures execute created, in the order of creation
    lock,     \* RequestDeduplicator._lock
    tasks,    \* the execute calls: where each one is, the in-flight
              \* request it found when it was made (0: none), the future
              \* it waits for, since when, its own future, and its outcome
    now,      \* the clock, in seconds
    threads   \* the threads that construct scorers side by side: where
              \* each one is in RelevanceScorer(jd), the job description,
              \* the instance it has in hand, and its calls so far

vars ==
    << cache, scorer, profile, ret, user, config, redis, server, in_flight,
       futures, lock, tasks, now, threads >>

\* the state of the request deduplicator
dedup_vars == << in_flight, futures, lock, tasks, now >>

\* what the relevance scorer does not touch
service_vars == << user, config, redis, server, dedup_vars, threads >>

\* what the request deduplicator does not touch
app_vars ==
    << cache, scorer, profile, ret, user, config, redis, server, threads >>

(***************************************************************************)
(* RelevanceScorer: construction and the instance cache                    *)
(***************************************************************************)
\* the digest of the text as it is written
CacheKeyAsWritten(jd) == jd

\* hashlib.md5(job_description.lower().encode()).hexdigest(): the digest
\* stands for the text it is the digest of
CacheKey(jd) == JdLower(jd)

\* the attributes __init__ derives from the job description, in the order
\* of their assignment
DERIVED_FIELDS ==
    << "job_description", "jd_tokens", "jd_keyword_freq", "job_title",
       "required_skills" >>

\* object.__new__(cls): an instance without attributes. attrs are the
\* derived attributes that have been assigned; id tells the objects that
\* threads create apart (None where one caller constructs at a time)
NewInstance ==
    [ id              |-> None,
      attrs           |-> {},
      initialized     |-> FALSE,
      cache_key       |-> None,
      job_description |-> << >>,
      jd_tokens       |-> << >>,
      jd_keyword_freq |-> << >>,
      job_title       |-> << >>,
      required_skills |-> {} ]

\* the index of the entry of the cache with this key, 0 if there is none
CacheIndex(c, key) ==
    IF \E i \in DOMAIN c : c[i].key = key
    THEN CHOOSE i \in DOMAIN c : c[i].key = key
    ELSE 0

\* "if len(cls._cache) >= cls._cache_max_size": the oldest entry goes
Evict(c) == IF Len(c) >= CACHE_MAX_SIZE THEN Tail(c) ELSE c

\* RelevanceScorer.__new__: the cache after the call and the instance
\* returned
New(c, jd) ==
    IF jd = << >>
    THEN [cache |-> c, instance |-> NewInstance]
    ELSE LET key == CacheKey(jd)
             at  == CacheIndex(c, key)
             instance == [NewInstance EXCEPT !.cache_key = Some(key)]
         IN  IF at # 0
             THEN [cache |-> c, instance |-> c[at].instance]
             ELSE [cache |-> Append(Evict(c),
                                    [key |-> key, instance |-> instance]),
                   instance |-> instance]

\* the body of __init__ past "if self._initialized: return", given the
\* derived state of the job description
Initialized(self, a) ==
    [self EXCEPT !.initialized     = TRUE,
                 !.attrs           = Range(DERIVED_FIELDS),
                 !.job_description = a.job_description,
                 !.jd_tokens       = a.jd_tokens,
                 !.jd_keyword_freq = a.jd_keyword_freq,
                 !.job_title       = a.job_title,
                 !.required_skills = a.required_skills]

\* RelevanceScorer.__init__: the instance after the call
Initialize(self, jd) ==
    IF self.initialized THEN self ELSE Initialized(self, Analyze(jd))

\* the cache once __init__ has run on the instance __new__ returned: the
\* cache holds a reference to that instance
CacheAfterInit(c, self) ==
    Tabulated([i \in DOMAIN c |->
        IF self.cache_key # None /\ c[i].key = self.cache_key[1]
        THEN [c[i] EXCEPT !.instance = self]
        ELSE c[i]])

\* type.__call__: __init__ runs on the instance __new__ returned; the
\* result is the cache and the instance after both
Called(n, jd) == [cache |-> n.cache, self |-> Initialize(n.instance, jd)]

\* RelevanceScorer(job_description), evaluated with the cache c
Constructor(c, jd) == Called(New(c, jd), jd)

\* the cache after a construction
CacheAfterFill(made) == CacheAfterInit(made.cache, made.self)

\* the caller holds the instance; the cache holds a reference to it
Constructed(jd, made) ==
    /\ cache' = CacheAfterInit(made.cache, made.self)
    /\ scorer' = Some([self |-> made.self, requested |-> jd])

\* scorer = RelevanceScorer(job_description)
Construct(jd) ==
    /\ Constructed(jd, Constructor(cache, jd))
    /\ UNCHANGED << profile, ret >>
    /\ UNCHANGED service_vars

\* RelevanceScorer.clear_cache()
ClearCache ==
    /\ cache' = << >>
    /\ ret' = [op |-> "clear_cache", value |-> Len(cache)]
    /\ UNCHANGED << scorer, profile >>
    /\ UNCHANGED service_vars

(***************************************************************************)
(* RelevanceScorer(jd) called from threads: a thread can be suspended      *)
(* between two statements of __new__, and between __new__ and __init__,    *)
(* while another thread runs. Nothing in the class serializes them.        *)
(***************************************************************************)
\* the thread th goes on as the record next says
Goes(th, next) == threads' = [threads EXCEPT ![th] = next]

\* the object a thread creates in its next construction
NewObject(th) ==
    [NewInstance EXCEPT !.id = Some(<< th, threads[th].calls >>)]

\* an attribute of an object is assigned: the cache and the threads refer to
\* the object, so each of them sees the object as it is now
Refers(instance, self) == self.id # None /\ instance.id = self.id

CacheSeeing(c, self) ==
    Tabulated([i \in DOMAIN c |->
        IF Refers(c[i].instance, self)
        THEN [c[i] EXCEPT !.instance = self]
        ELSE c[i]])

ThreadsSeeing(ths, self) ==
    [th \in THREADS |->
        IF ths[th].instance # None /\ Refers(ths[th].instance[1], self)
        THEN [ths[th] EXCEPT !.instance = Some(self)]
        ELSE ths[th]]

\* __new__ up to "instance = super().__new__(cls)": the cached instance is
\* returned, or an instance is created
NewLookup(th, jd) ==
    /\ threads[th].pc = "idle"
    /\ threads[th].calls < MaxCalls
    /\ LET at == CacheIndex(cache, CacheKey(jd))
       IN  IF at # 0
           THEN Goes(th, [threads[th] EXCEPT
                            !.pc = "init", !.jd = jd,
                            !.instance = Some(cache[at].instance)])
           ELSE Goes(th, [threads[th] EXCEPT
                            !.pc = "evict", !.jd = jd,
                            !.instance = Some(NewObject(th))])
    /\ UNCHANGED << cache, scorer, profile, ret >>
    /\ UNCHANGED << user, config, redis, server, dedup_vars >>

\* "if len(cls._cache) >= cls._cache_max_size: ... del
\* cls._cache[oldest_key]"
NewEvict(th) ==
    /\ threads[th].pc = "evict"
    /\ cache' = Evict(cache)
    /\ Goes(th, [threads[th] EXCEPT !.pc = "insert"])
    /\ UNCHANGED << scorer, profile, ret >>
    /\ UNCHANGED << user, config, redis, server, dedup_vars >>

\* cls._cache[cache_key] = instance: a key that is in the dict keeps its
\* place, a new key goes to the end
Inserted(c, key, instance) ==
    IF CacheIndex(c, key) # 0
    THEN [c EXCEPT ![CacheIndex(c, key)].instance = instance]
    ELSE Append(c, [key |-> key, instance |-> instance])

\* "cls._cache[cache_key] = instance; instance._cache_key = cache_key;
\* return instance"
NewInsert(th) ==
    /\ threads[th].pc = "insert"
    /\ LET key == CacheKey(threads[th].jd)
           instance == [threads[th].instance[1] EXCEPT
                          !.cache_key = Some(key)]
       IN  /\ cache' = Inserted(cache, key, instance)
           /\ Goes(th, [threads[th] EXCEPT
                           !.pc = "init", !.instance = Some(instance)])
    /\ UNCHANGED << scorer, profile, ret >>
    /\ UNCHANGED << user, config, redis, server, dedup_vars >>

\* the constructor returns the instance to the thread
Returns(ths, th) ==
    [ths EXCEPT ![th].pc = "idle", ![th].step = 0, ![th].calls = @ + 1]

\* __init__ on the instance __new__ returned, run without the thread being
\* suspended in it; the thread has its scorer
InitRun(th) ==
    /\ threads[th].pc = "init"
    /\ LET self == Initialize(threads[th].instance[1], threads[th].jd)
       IN  /\ cache' = CacheSeeing(cache, self)
           /\ threads' = Returns(ThreadsSeeing(threads, self), th)
    /\ UNCHANGED << scorer, profile, ret >>
    /\ UNCHANGED << user, config, redis, server, dedup_vars >>

\* hasattr(self, 'job_description'): true from the first statement of
\* __init__ on
HasJobDescription(self) == "job_description" \in self.attrs

\* hasattr(self, '_initialized'): true from the last statement of __init__ on
HasInitialized(self) == self.initialized

\* "if hasattr(self, '_initialized'): return"
InitCheck(th) ==
    /\ threads[th].pc = "init"
    /\ IF HasInitialized(threads[th].instance[1])
       THEN threads' = Returns(threads, th)
       ELSE Goes(th, [threads[th] EXCEPT !.pc = "assign", !.step = 1])
    /\ UNCHANGED << cache, scorer, profile, ret >>
    /\ UNCHANGED << user, config, redis, server, dedup_vars >>

\* the value the statement of __init__ that assigns the field computes:
\* jd_keyword_freq is counted from the jd_tokens the object has now, the
\* others are derived from the job description the thread passed
Derived(self, jd, field) ==
    IF field = "jd_keyword_freq"
    THEN Counter(self.jd_tokens)
    ELSE Analyze(jd)[field]

Assigned(self, jd, field) ==
    [self EXCEPT ![field] = Derived(self, jd, field),
                 !.attrs = @ \cup {field}]

\* one statement of __init__: "self.<field> = ..." for the next derived
\* field, or "self._initialized = True" and the return
InitAssign(th) ==
    /\ threads[th].pc = "assign"
    /\ LET self == threads[th].instance[1]
           step == threads[th].step
       IN  IF step <= Len(DERIVED_FIELDS)
           THEN LET new == Assigned(self, threads[th].jd,
                                    DERIVED_FIELDS[step])
                IN  /\ cache' = CacheSeeing(cache, new)
                    /\ threads' =
                          [ThreadsSeeing(threads, new) EXCEPT
                              ![th].step = step + 1]
           ELSE LET new == [self EXCEPT !.initialized = TRUE]
                IN  /\ cache' = CacheSeeing(cache, new)
                    /\ threads' = Returns(ThreadsSeeing(threads, new), th)
    /\ UNCHANGED << scorer, profile, ret >>
    /\ UNCHANGED << user, config, redis, server, dedup_vars >>

(***************************************************************************)
(* RelevanceScorer: scoring and selection                                  *)
(***************************************************************************)
\* a scorer's effect: the score is stored in the item and the ScoredItem
\* is returned
ScoreItemOf(c, i, r) ==
    /\ profile' = [profile EXCEPT ![c][i].relevance_score = r.score]
    /\ ret' = [op        |-> "score_item",
               requested |-> scorer[1].requested,
               category  |-> c,
               scored    |-> Scored(i, r)]

\* scorer.score_<category>(profile.<category>[i])
ScoreItemAt(c, i) ==
    /\ scorer # None
    /\ i \in DOMAIN profile[c]
    /\ ScoreItemOf(c, i, ScoreItem(scorer[1].self, c, profile[c][i]))
    /\ UNCHANGED << cache, scorer >>
    /\ UNCHANGED service_vars

\* scorer.score_experience(exp) for an experience of the profile
ScoreExperience == \E i \in 1..MaxItems : ScoreItemAt("experiences", i)

\* scorer.score_project(proj) for a project of the profile
ScoreProject == \E i \in 1..MaxItems : ScoreItemAt("projects", i)

\* scorer.score_skill(skill) for a skill of the profile
ScoreSkill == \E i \in 1..MaxItems : ScoreItemAt("skills", i)

\* scorer.score_education(edu) for an education of the profile
ScoreEducation == \E i \in 1..MaxItems : ScoreItemAt("educations", i)

\* scorer.score_publication(pub) for a publication of the profile
ScorePublication == \E i \in 1..MaxItems : ScoreItemAt("publications", i)

\* score_profile, given the ScoredItems its list comprehensions built
ScoreProfileOf(all) ==
    /\ profile' = ProfileScored(profile, all)
    /\ ret' = [op        |-> "score_profile",
               requested |-> scorer[1].requested,
               value     |-> score_profile(all)]

\* scorer.score_profile(profile)
ScoreProfile ==
    /\ scorer # None
    /\ ScoreProfileOf(ScoreAll(scorer[1].self, profile))
    /\ UNCHANGED << cache, scorer >>
    /\ UNCHANGED service_vars

\* select_top_items, given what score_profile built and returned
SelectTopItemsOf(all, scored) ==
    /\ profile' = ProfileScored(profile, all)
    /\ \E caps \in CAPS_INPUTS :
          ret' = [op        |-> "select_top_items",
                  requested |-> scorer[1].requested,
                  caps      |-> caps,
                  scored    |-> scored,
                  value     |-> select_top_items(scored, caps)]

\* "scored = self.score_profile(profile)"
SelectTopItemsFrom(all) == SelectTopItemsOf(all, score_profile(all))

\* scorer.select_top_items(profile, max_experiences, ..., max_publications)
SelectTopItems ==
    /\ scorer # None
    /\ SelectTopItemsFrom(ScoreAll(scorer[1].self, profile))
    /\ UNCHANGED << cache, scorer >>
    /\ UNCHANGED service_vars

(***************************************************************************)
(* ResumeCompiler.compile                                                  *)
(***************************************************************************)
\* what compile returned, with its arguments
Returned(call, response) ==
    [op |-> "compile", call |-> call, value |-> response]

\* "return response", past "if use_cache: await set_cached(cache_key,
\* response.model_dump(mode='json'))"
Cached(call, response, set) ==
    /\ ret' = Returned(call, response)
    /\ redis' = set.rc
    /\ server' = set.srv

\* the response is cached only if it has a PDF
RespondWithPdfCached(call, key, rc, response, prof) ==
    IF call.use_cache /\ response.pdf_base64 # None
    THEN Cached(call, response,
                set_cached(rc, config.redis_url, server, key,
                           ModelDump(response, prof)))
    ELSE /\ ret' = Returned(call, response)
         /\ redis' = rc
         /\ UNCHANGED server

\* the response is built: it is cached if use_cache, and returned
Respond(call, key, rc, response, prof) ==
    IF call.use_cache
    THEN Cached(call, response,
                set_cached(rc, config.redis_url, server, key,
                           ModelDump(response, prof)))
    ELSE /\ ret' = Returned(call, response)
         /\ redis' = rc
         /\ UNCHANGED server

\* compile from "selected = scorer.select_top_items(...)" on, given the
\* ScoredItems the selection built: CompiledResume(...) raises a
\* ValidationError, which is a ValueError, for a template that is not a
\* TemplateType, and "except ValueError" returns the failure
CompileSelected(call, key, rc, job_title, all) ==
    /\ profile' = ProfileScored(profile, all)
    /\ IF TemplateVal(call.template, user.settings) \in TEMPLATE_TYPES
       THEN Respond(call, key, rc,
                Response(
                    CompiledResume(
                        select_top_items(score_profile(all),
                            ConfigOf(TemplateVal(call.template,
                                                 user.settings))),
                        TemplateVal(call.template, user.settings),
                        job_title),
                    call.pdf),
                ProfileScored(profile, all))
       ELSE /\ ret' = Returned(call, Failure("validation error"))
            /\ redis' = rc
            /\ UNCHANGED server

\* compile from "scorer = RelevanceScorer(job_description)" on, given the
\* cache and the instance the constructor left
CompileScored(call, key, rc, made) ==
    /\ cache' = CacheAfterInit(made.cache, made.self)
    /\ CompileSelected(call, key, rc, made.self.job_title,
                       ScoreAll(made.self, profile))

\* compile past the cache check, given what get_cached left and returned:
\* a hit returns ResumeResponse(**cached), whose items are the cached
\* values
CompileChecked(call, key, got) ==
    IF got.value # None
    THEN /\ ret' = Returned(call,
                     IF ValidCached(got.value[1]) THEN got.value[1]
                     ELSE Failure("validation error"))
         /\ redis' = got.rc
         /\ UNCHANGED << cache, profile, server >>
    ELSE CompileScored(call, key, got.rc,
                       Constructor(cache, call.job_description))

\* compile past "cache_key = generate_cache_key(profile.id,
\* job_description, 'resume')"
CompileKeyed(call, key) ==
    CompileChecked(call, key,
        IF call.use_cache
        THEN get_cached(redis, config.redis_url, server, key)
        ELSE [rc |-> redis, value |-> None, contacted |-> FALSE])

\* await compiler.compile(profile, job_description, template, use_cache);
\* pdf is what becomes of the PDF if the compilation gets that far
Compile(jd, template, use_cache, pdf) ==
    /\ CompileKeyed([job_description |-> jd, template |-> template,
                     use_cache |-> use_cache, pdf |-> pdf],
                    generate_cache_key(user.id, jd, "resume"))
    /\ UNCHANGED << scorer, user, config, dedup_vars, threads >>

\* the health endpoint: await redis_client.ping()
Ping ==
    /\ redis' = ping(redis, config.redis_url, server.up).rc
    /\ ret' = [op |-> "ping",
               value |-> ping(redis, config.redis_url, server.up).value,
               contacted |->
                   ping(redis, config.redis_url, server.up).contacted]
    /\ UNCHANGED << cache, scorer, profile, user, config, server,
                    dedup_vars, threads >>

\* the Redis server stops answering
ServerDown ==
    /\ server.up
    /\ server' = [server EXCEPT !.up = FALSE]
    /\ UNCHANGED << cache, scorer, profile, ret, user, config, redis,
                    dedup_vars, threads >>

\* the Redis server answers again
ServerUp ==
    /\ ~server.up
    /\ server' = [server EXCEPT !.up = TRUE]
    /\ UNCHANGED << cache, scorer, profile, ret, user, config, redis,
                    dedup_vars, threads >>

(***************************************************************************)
(* RequestDeduplicator (app/utils/request_deduplicator.py). Every execute  *)
(* call is a task of the event loop: what it does between two awaits is    *)
(* one step. A future is [key, owner, state, value]; the future a call     *)
(* creates stands for the invocation of func that follows, and the value   *)
(* func returns is the number of that future. The lock is an asyncio.Lock: *)
(* [holder, waiters], handed to the first waiter when it is released.      *)
(***************************************************************************)
\* ttl_seconds of the deduplicator
TTL_SECONDS == 2

\* the clock stops here
MaxTime == 3

\* the exceptions func raises
VALUE_ERROR == "ValueError"

TIMEOUT_ERROR == "TimeoutError"

EXCEPTIONS == { VALUE_ERROR, TIMEOUT_ERROR }

\* the execute calls: for each, its cache_key "key_prefix:request_hash"
CALL_KEYS ==
    << "cover_letter:1", "interview_prep:2", "interview_prep:2",
       "cover_letter:1" >>

TASKS == DOMAIN CALL_KEYS

\* a task that has not called execute yet
NewTask ==
    [ pc |-> "idle", found |-> 0, awaited |-> 0, wait_start |-> 0,
      future |-> 0, outcome |-> None ]

\* RequestDeduplicator.__init__, and a loop on which nothing ran yet
InitDedup ==
    /\ in_flight = << >>
    /\ futures = << >>
    /\ lock = [holder |-> 0, waiters |-> << >>]
    /\ tasks = [t \in TASKS |-> NewTask]
    /\ now = 0

\* del d[key], or d if the key is not in it
Without(d, key) == [k \in DOMAIN d \ {key} |-> d[k]]

\* asyncio.Lock.release: the first waiter is woken and holds the lock next
Release(l) ==
    IF l.waiters = << >>
    THEN [holder |-> 0, waiters |-> << >>]
    ELSE [holder |-> Head(l.waiters), waiters |-> Tail(l.waiters)]

\* an entry whose age is the TTL passes for fresh
NotExpiredAtTTL(entry) == now - entry.timestamp <= TTL_SECONDS

\* "datetime.utcnow() - in_flight.timestamp < self._ttl"
NotExpired(entry) == now - entry.timestamp < TTL_SECONDS

\* the in-flight request of the key that a call made now would wait for, 0
\* if there is none
Joinable(key) ==
    IF /\ key \in DOMAIN in_flight
       /\ NotExpired(in_flight[key])
       /\ futures[in_flight[key].future].state = "pending"
    THEN in_flight[key].future
    ELSE 0

\* the tasks, the call of task t being made if it is not yet: it notes the
\* in-flight request it would wait for
Calling(t) ==
    IF tasks[t].pc = "idle"
    THEN [tasks EXCEPT ![t].found = Joinable(CALL_KEYS[t])]
    ELSE tasks

\* execute from "future = ...create_future()" to "await func(*args,
\* **kwargs)", in_flight being flight: the future is registered, the lock
\* is released and func is invoked
Register(t, l, flight) ==
    /\ futures' = Append(futures,
                     [ key |-> CALL_KEYS[t], owner |-> t,
                       state |-> "pending", value |-> None ])
    /\ in_flight' = (CALL_KEYS[t] :>
                        [future |-> Len(futures) + 1, timestamp |-> now])
                    @@ flight
    /\ lock' = Release(l)
    /\ tasks' = [Calling(t) EXCEPT ![t].pc = "executing",
                              ![t].future = Len(futures) + 1]

\* execute returns or raises from inside "async with self._lock"
Leave(t, l, outcome) ==
    /\ tasks' = [Calling(t) EXCEPT ![t].pc = "done",
                                  ![t].outcome = Some(outcome)]
    /\ lock' = Release(l)
    /\ UNCHANGED << in_flight, futures >>

\* "return await asyncio.wait_for(asyncio.shield(in_flight.future), ...)"
\* once the future f is done: its result is returned, its exception is
\* raised, unless it is a TimeoutError, which "except asyncio.TimeoutError"
\* takes for the timeout of the wait
Awaited(t, l, f) ==
    IF futures[f].state = "result"
    THEN Leave(t, l, [kind |-> "returned", value |-> futures[f].value])
    ELSE IF futures[f].value = Some(TIMEOUT_ERROR)
    THEN Register(t, l, Without(in_flight, CALL_KEYS[t]))
    ELSE Leave(t, l, [kind |-> "raised", value |-> futures[f].value])

\* the wait for the future f begins, the lock being held
Wait(t, l, f) ==
    /\ tasks' = [Calling(t) EXCEPT ![t].pc = "waiting", ![t].awaited = f,
                              ![t].wait_start = now]
    /\ lock' = l
    /\ UNCHANGED << in_flight, futures >>

\* the body of the first "async with self._lock" of execute, the lock l
\* being held by the task
Locked(t, l) ==
    IF CALL_KEYS[t] \in DOMAIN in_flight
    THEN IF NotExpired(in_flight[CALL_KEYS[t]])
         THEN IF futures[in_flight[CALL_KEYS[t]].future].state = "pending"
              THEN Wait(t, l, in_flight[CALL_KEYS[t]].future)
              ELSE Awaited(t, l, in_flight[CALL_KEYS[t]].future)
         ELSE Register(t, l, Without(in_flight, CALL_KEYS[t]))
    ELSE Register(t, l, in_flight)

\* await deduplicator.execute(key_prefix, func, *args): the call runs to
\* its first await; a lock that is held, or has waiters, is queued for
Execute(t) ==
    /\ tasks[t].pc = "idle"
    /\ IF lock.holder = 0
       THEN Locked(t, [lock EXCEPT !.holder = t])
       ELSE /\ lock' = [lock EXCEPT !.waiters = Append(@, t)]
            /\ tasks' = [Calling(t) EXCEPT ![t].pc = "lock_wait"]
            /\ UNCHANGED << in_flight, futures >>
    /\ UNCHANGED << now, app_vars >>

\* a call that queued for the lock holds it
Entered(t) ==
    /\ tasks[t].pc = "lock_wait"
    /\ lock.holder = t
    /\ Locked(t, lock)
    /\ UNCHANGED << now, app_vars >>

\* the future a call waits for is done
Resumed(t) ==
    /\ tasks[t].pc = "waiting"
    /\ futures[tasks[t].awaited].state # "pending"
    /\ Awaited(t, lock, tasks[t].awaited)
    /\ UNCHANGED << now, app_vars >>

\* the timeout of wait_for, self._ttl.total_seconds(), is over
WaitOver(t) ==
    /\ tasks[t].pc = "waiting"
    /\ now - tasks[t].wait_start >= TTL_SECONDS

\* "except asyncio.TimeoutError: del self._in_flight[cache_key]", and the
\* call makes the request itself
TimedOut(t) ==
    /\ WaitOver(t)
    /\ Register(t, lock, Without(in_flight, CALL_KEYS[t]))
    /\ UNCHANGED << now, app_vars >>

\* the finally clause leaves the entry where it is
CleanUpKeeping(t, l, outcome) ==
    /\ in_flight' = in_flight
    /\ lock' = Release(l)
    /\ tasks' = [tasks EXCEPT ![t].pc = "done", ![t].outcome = outcome]

\* "finally: async with self._lock: if cache_key in self._in_flight: del
\* self._in_flight[cache_key]", the lock being held
CleanUp(t, l, outcome) ==
    /\ in_flight' = Without(in_flight, CALL_KEYS[t])
    /\ lock' = Release(l)
    /\ tasks' = [tasks EXCEPT ![t].pc = "done", ![t].outcome = outcome]

\* execute from the end of "await func(*args, **kwargs)" on: the outcome
\* is set on the future, and the finally clause cleans up or queues for the
\* lock
Finished(t, state, value) ==
    /\ futures' = [futures EXCEPT ![tasks[t].future].state = state,
                                  ![tasks[t].future].value = value]
    /\ IF lock.holder = 0
       THEN CleanUp(t, [lock EXCEPT !.holder = t],
                    Some([kind |-> IF state = "result" THEN "returned"
                                   ELSE "raised",
                          value |-> value]))
       ELSE /\ lock' = [lock EXCEPT !.waiters = Append(@, t)]
            /\ tasks' = [tasks EXCEPT
                           ![t].pc = "cleanup_wait",
                           ![t].outcome =
                               Some([kind |-> IF state = "result"
                                              THEN "returned" ELSE "raised",
                                     value |-> value])]
            /\ UNCHANGED in_flight

\* func returns: its value names the invocation
FuncReturns(t) ==
    /\ tasks[t].pc = "executing"
    /\ Finished(t, "result", Some(tasks[t].future))
    /\ UNCHANGED << now, app_vars >>

\* func raises
FuncRaises(t, e) ==
    /\ tasks[t].pc = "executing"
    /\ Finished(t, "exception", Some(e))
    /\ UNCHANGED << now, app_vars >>

\* the finally clause of a call that queued for the lock holds it
CleanedUp(t) ==
    /\ tasks[t].pc = "cleanup_wait"
    /\ lock.holder = t
    /\ CleanUp(t, lock, tasks[t].outcome)
    /\ UNCHANGED << futures, now, app_vars >>

\* the task can run: the event loop runs it before time passes
Ready(t) ==
    \/ tasks[t].pc \in {"lock_wait", "cleanup_wait"} /\ lock.holder = t
    \/ tasks[t].pc = "waiting"
         /\ (futures[tasks[t].awaited].state # "pending" \/ WaitOver(t))

\* time passes while every task is suspended
Tick ==
    /\ now < MaxTime
    /\ \A t \in TASKS : ~Ready(t)
    /\ now' = now + 1
    /\ UNCHANGED << in_flight, futures, lock, tasks, app_vars >>

(***************************************************************************)
(* The scorer on its own: scorers are constructed, the cache is cleared,   *)
(* profiles are scored and selected from.                                  *)
(***************************************************************************)
\* no request has reached the service: a user without settings, a process
\* with a Redis URL and a PDF generator, a client that never connected
InitService ==
    /\ user = [id |-> "user-1", settings |-> None]
    /\ config = [redis_url |-> TRUE, pdf_available |-> TRUE]
    /\ redis = NewRedisClient
    /\ server = [up |-> TRUE, data |-> << >>]
    /\ InitDedup
    /\ threads = [th \in THREADS |-> NewThread]

Init ==
    /\ cache = << >>
    /\ scorer = None
    /\ profile \in PROFILES
    /\ ret = [op |-> "none"]
    /\ InitService

Next ==
    \/ \E jd \in JOB_DESCRIPTIONS : Construct(jd)
    \/ ClearCache
    \/ ScoreProfile
    \/ SelectTopItems

Spec == Init /\ [][Next]_vars

(***************************************************************************)
(* One scorer and the calls on it: the five scorers on single items,       *)
(* score_profile and select_top_items.                                     *)
(***************************************************************************)
\* the profiles that hold the k-th item of every pool that has one
SCORE_PROFILES ==
    { [c \in CATEGORIES |->
          IF k <= Len(ITEM_POOL[c]) THEN << ITEM_POOL[c][k] >> ELSE << >>] :
      k \in 1..Len(ITEM_POOL.skills) }

InitScore ==
    /\ cache = << >>
    /\ scorer = None
    /\ profile \in SCORE_PROFILES
    /\ ret = [op |-> "none"]
    /\ InitService

\* the first scorer of the process is constructed
ConstructFirst(jd) ==
    /\ scorer = None
    /\ Construct(jd)

NextScore ==
    \/ \E jd \in SCORE_JDS : ConstructFirst(jd)
    \/ ScoreExperience
    \/ ScoreProject
    \/ ScoreSkill
    \/ ScoreEducation
    \/ ScorePublication
    \/ ScoreProfile
    \/ SelectTopItems

SpecScore == InitScore /\ [][NextScore]_vars

(***************************************************************************)
(* The compilation service: compile requests for one user, health checks,  *)
(* and a Redis server that comes and goes.                                 *)
(***************************************************************************)
\* the job descriptions compile is called with
COMPILE_JDS == { JD_SAMPLE }

\* the template arguments compile is called with
TEMPLATE_INPUTS ==
    { None, Some("education-research-skills"), Some("legacy") }

\* profile.settings: absent, or with a selected_template, which is any str
SETTINGS_INPUTS ==
    { None,
      Some([selected_template |-> "compact-technical"]),
      Some([selected_template |-> "legacy"]) }

InitCompile ==
    /\ cache = << >>
    /\ scorer = None
    /\ profile = [c \in CATEGORIES |-> Take(ITEM_POOL[c], MaxItems)]
    /\ ret = [op |-> "none"]
    /\ user \in { [id |-> "user-1", settings |-> s] : s \in SETTINGS_INPUTS }
    /\ config \in [redis_url : BOOLEAN, pdf_available : BOOLEAN]
    /\ redis = NewRedisClient
    /\ server \in { [up |-> u, data |-> << >>] : u \in BOOLEAN }
    /\ InitDedup
    /\ threads = [th \in THREADS |-> NewThread]

NextCompile ==
    \/ \E jd \in COMPILE_JDS, template \in TEMPLATE_INPUTS,
          use_cache \in BOOLEAN, pdf \in PdfOutcomes(config.pdf_available) :
          Compile(jd, template, use_cache, pdf)
    \/ Ping
    \/ ServerDown
    \/ ServerUp

SpecCompile == InitCompile /\ [][NextCompile]_vars

(***************************************************************************)
(* The request deduplicator: execute calls on one event loop, a func that  *)
(* returns or raises when it likes, and the clock.                         *)
(***************************************************************************)
InitDedupe ==
    /\ cache = << >>
    /\ scorer = None
    /\ profile = [c \in CATEGORIES |-> << >>]
    /\ ret = [op |-> "none"]
    /\ InitService

NextDedupe ==
    \/ \E t \in TASKS : Execute(t)
    \/ \E t \in TASKS : Entered(t)
    \/ \E t \in TASKS : Resumed(t)
    \/ \E t \in TASKS : TimedOut(t)
    \/ \E t \in TASKS : FuncReturns(t)
    \/ \E t \in TASKS, e \in EXCEPTIONS : FuncRaises(t, e)
    \/ \E t \in TASKS : CleanedUp(t)
    \/ Tick

SpecDedupe == InitDedupe /\ [][NextDedupe]_vars

(***************************************************************************)
(* Scorers constructed from threads: the cache is empty or one short of    *)
(* full, as test_scorer_cache_max_size fills it, and the threads ask for   *)
(* job descriptions that are in it and that are not.                       *)
(***************************************************************************)
\* the cache after RelevanceScorer(f"Job description number {i}") for
\* i = 0 .. n - 1, n being less than the maximum: nothing is evicted, and
\* the entries are those of the constructions, in their order
Filled(n) ==
    Tabulated([i \in 1..n |->
        CacheAfterFill(Constructor(<< >>, NumberedJd(i - 1)))[1]])

\* the numbers of entries the cache starts with
PREFILLS == { 0, CACHE_MAX_SIZE - 1 }

\* the job descriptions the threads ask for: one of the filled cache, two
\* that are new
THREAD_JDS ==
    { NumberedJd(CACHE_MAX_SIZE - 2), NumberedJd(CACHE_MAX_SIZE),
      NumberedJd(CACHE_MAX_SIZE + 1) }

InitThreads ==
    /\ cache \in { Filled(n) : n \in PREFILLS }
    /\ scorer = None
    /\ profile = [c \in CATEGORIES |-> << >>]
    /\ ret = [op |-> "none"]
    /\ InitService

NextThreads ==
    \/ \E th \in THREADS, jd \in THREAD_JDS : NewLookup(th, jd)
    \/ \E th \in THREADS : NewEvict(th)
    \/ \E th \in THREADS : NewInsert(th)
    \/ \E th \in THREADS : InitRun(th)
    \/ ClearCache

SpecThreads == InitThreads /\ [][NextThreads]_vars

(***************************************************************************)
(* RelevanceScorer(jd) called from threads that can be suspended between   *)
(* any two statements of __new__ and of __init__: the cache starts empty,  *)
(* and the job descriptions are two that differ in letter case only, which *)
(* share a cache key, and one with a key of its own.                       *)
(***************************************************************************)
INIT_JDS == { JD_UPPER, JD_LOWER, JD_PYTHON }

InitStatements ==
    /\ cache = << >>
    /\ scorer = None
    /\ profile = [c \in CATEGORIES |-> << >>]
    /\ ret = [op |-> "none"]
    /\ InitService

NextStatements ==
    \/ \E th \in THREADS, jd \in INIT_JDS : NewLookup(th, jd)
    \/ \E th \in THREADS : NewEvict(th)
    \/ \E th \in THREADS : NewInsert(th)
    \/ \E th \in THREADS : InitCheck(th)
    \/ \E th \in THREADS : InitAssign(th)
    \/ ClearCache

SpecStatements == InitStatements /\ [][NextStatements]_vars

(***************************************************************************)
(* The RedisClient on its own: its methods are called in any order, as     *)
(* its tests call them, while the Redis server comes and goes.             *)
(***************************************************************************)
\* the failures in a row that are recorded directly
MaxFailures == 12

\* redis_client.record_failure()
RecordFailure ==
    /\ redis.consecutive_failures < MaxFailures
    /\ redis' = record_failure(redis)
    /\ ret' = [op |-> "record_failure"]
    /\ UNCHANGED << cache, scorer, profile, user, config, server,
                    dedup_vars, threads >>

\* redis_client.record_success()
RecordSuccess ==
    /\ redis' = record_success(redis)
    /\ ret' = [op |-> "record_success"]
    /\ UNCHANGED << cache, scorer, profile, user, config, server,
                    dedup_vars, threads >>

\* await redis_client.close()
Close ==
    /\ redis' = close(redis)
    /\ ret' = [op |-> "close"]
    /\ UNCHANGED << cache, scorer, profile, user, config, server,
                    dedup_vars, threads >>

\* await redis_client.get_client()
GetClient ==
    /\ redis' = get_client(redis, config.redis_url, server.up).rc
    /\ ret' = [op |-> "get_client",
               value |-> get_client(redis, config.redis_url,
                                    server.up).connection,
               contacted |-> get_client(redis, config.redis_url,
                                        server.up).attempted]
    /\ UNCHANGED << cache, scorer, profile, user, config, server,
                    dedup_vars, threads >>

\* the keys the cache operations are called with
REDIS_KEYS ==
    { generate_cache_key("user-1", JD_EMPTY, prefix) :
        prefix \in {"resume", "cover_letter"} }

\* the patterns invalidate_cache is called with
REDIS_PATTERNS ==
    { [prefix |-> prefix, user_id |-> "user-1"] :
        prefix \in {"resume", "cover_letter"} }

\* await get_cached(key)
GetCached(key) ==
    /\ redis' = get_cached(redis, config.redis_url, server, key).rc
    /\ ret' = [op |-> "get_cached",
               value |->
                   get_cached(redis, config.redis_url, server, key).value,
               contacted |->
                   get_cached(redis, config.redis_url, server,
                              key).contacted]
    /\ UNCHANGED << cache, scorer, profile, user, config, server,
                    dedup_vars, threads >>

\* await set_cached(key, value)
SetCachedValue(key, value) ==
    /\ redis' = set_cached(redis, config.redis_url, server, key, value).rc
    /\ server' = set_cached(redis, config.redis_url, server, key, value).srv
    /\ ret' = [op |-> "set_cached",
               value |-> set_cached(redis, config.redis_url, server, key,
                                    value).value,
               contacted |-> set_cached(redis, config.redis_url, server,
                                        key, value).contacted]
    /\ UNCHANGED << cache, scorer, profile, user, config, dedup_vars,
                    threads >>

\* await invalidate_cache(pattern)
InvalidateCache(pattern) ==
    /\ redis' = invalidate_cache(redis, config.redis_url, server, pattern).rc
    /\ server' =
          invalidate_cache(redis, config.redis_url, server, pattern).srv
    /\ ret' = [op |-> "invalidate_cache",
               value |-> invalidate_cache(redis, config.redis_url, server,
                                          pattern).value,
               contacted |-> invalidate_cache(redis, config.redis_url,
                                              server, pattern).contacted]
    /\ UNCHANGED << cache, scorer, profile, user, config, dedup_vars,
                    threads >>

InitRedis ==
    /\ cache = << >>
    /\ scorer = None
    /\ profile = [c \in CATEGORIES |-> << >>]
    /\ ret = [op |-> "none"]
    /\ user = [id |-> "user-1", settings |-> None]
    /\ config \in [redis_url : BOOLEAN, pdf_available : {TRUE}]
    /\ redis = NewRedisClient
    /\ server \in { [up |-> u, data |-> << >>] : u \in BOOLEAN }
    /\ InitDedup
    /\ threads = [th \in THREADS |-> NewThread]

NextRedis ==
    \/ RecordFailure
    \/ RecordSuccess
    \/ GetClient
    \/ Ping
    \/ Close
    \/ \E key \in REDIS_KEYS : GetCached(key)
    \/ \E key \in REDIS_KEYS : SetCachedValue(key, [success |-> TRUE])
    \/ \E pattern \in REDIS_PATTERNS : InvalidateCache(pattern)
    \/ ServerDown
    \/ ServerUp

SpecRedis == InitRedis /\ [][NextRedis]_vars

(***************************************************************************)
(* The CSRF middleware (app/utils/csrf_protection.py) as main.py adds it   *)
(***************************************************************************)
\* str.startswith
StartsWith(s, prefix) ==
    /\ Len(prefix) <= Len(s)
    /\ SubSeq(s, 1, Len(prefix)) = prefix

PATH_ROOT == << "/" >>

PATH_HEALTH == << "/", "h", "e", "a", "l", "t", "h" >>

PATH_API_ROOT == << "/", "a", "p", "i", "/", "p", "y", "/" >>

PATH_API_HEALTH == PATH_API_ROOT \o SubSeq(PATH_HEALTH, 2, Len(PATH_HEALTH))

PATH_COMPILE == << "/", "c", "o", "m", "p", "i", "l", "e" >>

PATH_COVER_LETTER == << "/", "c", "o", "v", "e", "r", "-",
                        "l", "e", "t", "t", "e", "r" >>

\* exempt_paths of the middleware the application adds
EXEMPT_PATHS == << PATH_HEALTH, PATH_ROOT, PATH_API_HEALTH, PATH_API_ROOT >>

HEALTH_PATHS == {PATH_HEALTH, PATH_API_HEALTH}

STATE_CHANGING_METHODS == {"POST", "PUT", "DELETE", "PATCH"}

SAFE_METHODS == {"GET", "HEAD", "OPTIONS"}

HTTP_METHODS == STATE_CHANGING_METHODS \cup SAFE_METHODS

REQUEST_PATHS == {PATH_ROOT, PATH_HEALTH, PATH_API_HEALTH, PATH_COMPILE,
                  PATH_COVER_LETTER}

\* a header or cookie value: None when the request has none
CSRF_TOKENS == {None, Some(""), Some("token-1"), Some("token-2")}

REQUESTS ==
    [method : HTTP_METHODS, path : REQUEST_PATHS,
     header_token : CSRF_TOKENS, cookie_token : CSRF_TOKENS]

HTTP_FORBIDDEN == 403

\* the value is missing or the empty string ("if not header_token")
Falsy(token) == token = None \/ token = Some("")

\* secrets.compare_digest of the two SHA-256 digests: equal exactly when
\* the tokens are equal, SHA-256 taken to be free of collisions
compare_tokens(token1, token2) == token1 = token2

\* the status of the HTTPException raised, 0 when none is raised
validate_csrf_token(request) ==
    IF Falsy(request.header_token) THEN HTTP_FORBIDDEN
    ELSE IF Falsy(request.cookie_token) THEN HTTP_FORBIDDEN
    ELSE IF ~compare_tokens(request.header_token, request.cookie_token)
         THEN HTTP_FORBIDDEN
    ELSE 0

Exempt(exempt_paths, path) ==
    \E i \in DOMAIN exempt_paths : StartsWith(path, exempt_paths[i])

\* what dispatch does with a request: whether call_next is called, the
\* status of the response when it is not, and whether a new cookie is set
dispatch(exempt_paths, request) ==
    IF Exempt(exempt_paths, request.path)
    THEN [forwarded |-> TRUE, status |-> 0, cookie_set |-> FALSE]
    ELSE IF request.method \notin STATE_CHANGING_METHODS
    THEN [forwarded |-> TRUE, status |-> 0,
          cookie_set |-> request.method = "GET"]
    ELSE IF validate_csrf_token(request) # 0
    THEN [forwarded |-> FALSE, status |-> validate_csrf_token(request),
          cookie_set |-> FALSE]
    ELSE [forwarded |-> TRUE, status |-> 0, cookie_set |-> TRUE]

\* one request passes through the middleware of the application
Dispatch(request) ==
    /\ ret' = [op |-> "dispatch", request |-> request,
               response |-> dispatch(EXEMPT_PATHS, request)]
    /\ UNCHANGED << cache, scorer, profile, service_vars >>

InitCsrf ==
    /\ cache = << >>
    /\ scorer = None
    /\ profile = [c \in CATEGORIES |-> << >>]
    /\ ret = [op |-> "none"]
    /\ user = [id |-> "user-1", settings |-> None]
    /\ config = [redis_url |-> TRUE, pdf_available |-> TRUE]
    /\ redis = NewRedisClient
    /\ server = [up |-> TRUE, data |-> << >>]
    /\ InitDedup
    /\ threads = [th \in THREADS |-> NewThread]

NextCsrf == \E request \in REQUESTS : Dispatch(request)

SpecCsrf == InitCsrf /\ [][NextCsrf]_vars

(***************************************************************************)
(* Properties of selection (checked under Spec)                            *)
(***************************************************************************)
Min(a, b) == IF a < b THEN a ELSE b

\* select_top_items has just returned
Selected == ret.op = "select_top_items"

\* the relevance_score of the item of category c a reference stands for
ScoreOf(c, i) == profile[c][i].relevance_score

\* C1: for every profile and all non-negative caps, select_top_items
\* returns in each of the five categories exactly min(cap, number of items
\* the profile holds in the category) items, so never more than the cap,
\* never more than the profile holds, and nothing for a cap of 0 or an
\* empty category.
CapRespected ==
    (Selected /\ \A c \in CATEGORIES : ret.caps[c] >= 0)
      => \A c \in CATEGORIES :
            Len(ret.value[c]) = Min(ret.caps[c], Len(profile[c]))

\* C1 happens: a call with non-negative caps where one category is cut by
\* its cap, another holds fewer items than its cap, and a third is capped
\* at 0 although the profile holds items of it
CapRespectedWitness ==
    /\ Selected
    /\ \A c \in CATEGORIES : ret.caps[c] >= 0
    /\ \E c \in CATEGORIES :
          /\ 0 < ret.caps[c]
          /\ ret.caps[c] < Len(profile[c])
          /\ Len(ret.value[c]) = ret.caps[c]
    /\ \E c \in CATEGORIES :
          /\ 0 < Len(profile[c])
          /\ Len(profile[c]) < ret.caps[c]
          /\ Len(ret.value[c]) = Len(profile[c])
    /\ \E c \in CATEGORIES :
          /\ ret.caps[c] = 0
          /\ Len(profile[c]) > 0

\* C2: every category select_top_items and score_profile return is in
\* descending order of score, and select_top_items leaves out no item whose
\* score is strictly greater than the score of an item it selected.
HighestFirst ==
    /\ ret.op = "score_profile" =>
          \A c \in CATEGORIES :
             \A k \in 1..(Len(ret.value[c]) - 1) :
                ~ScoreLess(ret.value[c][k].score, ret.value[c][k + 1].score)
    /\ Selected =>
          \A c \in CATEGORIES :
             /\ \A k \in 1..(Len(ret.value[c]) - 1) :
                   ~ScoreLess(ScoreOf(c, ret.value[c][k]),
                              ScoreOf(c, ret.value[c][k + 1]))
             /\ \A out \in DOMAIN profile[c] \ Range(ret.value[c]) :
                   \A in \in Range(ret.value[c]) :
                      ~ScoreLess(ScoreOf(c, in), ScoreOf(c, out))

\* C2 happens: a selection that had to reorder the profile's list, whose
\* selected items have different scores, and that left out an item with a
\* score above zero
HighestFirstWitness ==
    /\ Selected
    /\ \E c \in CATEGORIES :
          /\ Len(ret.value[c]) >= 2
          /\ ret.value[c][1] > ret.value[c][2]
          /\ ScoreLess(ScoreOf(c, ret.value[c][2]),
                       ScoreOf(c, ret.value[c][1]))
          /\ \E out \in DOMAIN profile[c] \ Range(ret.value[c]) :
                ScoreLess(ZERO, ScoreOf(c, out))

\* C4: called with a negative cap for a category, select_top_items returns
\* no item of that category (it does not signal a failure, so that is the
\* only outcome the claim leaves it).
NegativeCapSelectsNothing ==
    Selected =>
       \A c \in CATEGORIES : ret.caps[c] < 0 => ret.value[c] = << >>

\* the job description a scorer is requested for, analysed by a scorer
\* that does not come from the cache
FreshScorer(jd) == Initialize(NewInstance, jd)

\* C9: select_top_items returns, for a job description, a profile and
\* caps, the same items in the same order whatever happened before, cache
\* hits included: it returns what a call returns on a scorer that was made
\* for that job description with the cache empty.
SelectionDeterministic ==
    Selected =>
       ret.value = select_top_items(
                      score_profile(
                         ScoreAll(FreshScorer(ret.requested), profile)),
                      ret.caps)

\* the instance was constructed for the job description in some letter
\* case: its job_description is the lower-cased text
MadeFor(instance, jd) == instance.job_description = JdLower(jd)

\* C17: constructing a RelevanceScorer for a non-empty job description of
\* which the cache holds an instance, made for the same text in whatever
\* letter case, returns that instance and adds no entry; an instance the
\* cache holds for a text that differs other than by case is another
\* instance than the one returned, under another cache key.
SameTextSameInstance ==
    [][\A jd \in JOB_DESCRIPTIONS \ { JD_EMPTY } :
          Construct(jd) =>
             \A i \in DOMAIN cache :
                IF MadeFor(cache[i].instance, jd)
                THEN /\ scorer'[1].self = cache[i].instance
                     /\ scorer'[1].self.cache_key = Some(cache[i].key)
                     /\ cache' = cache
                ELSE /\ scorer'[1].self # cache[i].instance
                     /\ scorer'[1].self.cache_key # Some(cache[i].key)
      ]_vars

\* C17 happens: the scorer constructed for the lower-case text is the
\* instance made for the upper-case text, whose job title is another, and
\* the cache holds an instance for another text as well
SameTextSameInstanceWitness ==
    /\ scorer # None
    /\ scorer[1].requested = JD_LOWER
    /\ scorer[1].self.job_title = Analyze(JD_UPPER).job_title
    /\ Analyze(JD_UPPER).job_title # Analyze(JD_LOWER).job_title
    /\ \E i, j \in DOMAIN cache :
          /\ cache[i].instance = scorer[1].self
          /\ cache[j].key # cache[i].key

(***************************************************************************)
(* Properties of the scorers (checked under SpecScore)                     *)
(***************************************************************************)
\* one of the five scorers has just returned
ScoredOne == ret.op = "score_item"

\* the item the last scorer call was given, as it is after the call
LastItem == profile[ret.category][ret.scored.item]

\* every field a scorer matches on is empty: empty strings, empty lists,
\* absent optionals
IsEmptyItem(c, item) ==
    CASE c = "experiences" ->
            /\ item.title = << >> /\ item.company = << >>
            /\ item.description = << >>
            /\ item.highlights = << >> /\ item.keywords = << >>
      [] c = "projects" ->
            /\ item.name = << >> /\ item.description = << >>
            /\ item.technologies = << >> /\ item.highlights = << >>
      [] c = "skills" ->
            /\ item.name = << >> /\ item.proficiency = None
      [] c = "educations" ->
            /\ item.institution = << >> /\ item.degree = << >>
            /\ item.field = << >> /\ item.honors = << >>
      [] c = "publications" ->
            /\ item.title = << >> /\ item.venue = << >>
            /\ item.abstract = None

\* the last scorer call returned score 0 and no matched keyword
ScoredNothing ==
    /\ ScoreEq(ret.scored.score, ZERO)
    /\ ret.scored.matched_keywords = {}

\* C5: for every job description, each of the five scorers gives an item
\* whose matchable fields are all empty the score 0 and no matched keyword.
EmptyItemScoresZero ==
    (ScoredOne /\ IsEmptyItem(ret.category, LastItem)) => ScoredNothing

\* C6: a scorer constructed from the empty job description has no tokens,
\* an empty frequency table, an empty job title and no required skills,
\* and every item scored against it gets score 0 and no matched keyword.
EmptyJobDescriptionScoresZero ==
    (scorer # None /\ scorer[1].requested = << >>) =>
       /\ scorer[1].self.jd_tokens = << >>
       /\ DOMAIN scorer[1].self.jd_keyword_freq = {}
       /\ scorer[1].self.job_title = << >>
       /\ scorer[1].self.required_skills = {}
       /\ ScoredOne => ScoredNothing

\* C8: when a scorer returns, the item holds the score of the ScoredItem
\* returned; when select_top_items returns, every item of the profile,
\* selected or not, holds the score the call computed for it.
ScoreStored ==
    /\ ScoredOne => LastItem.relevance_score = ret.scored.score
    /\ Selected =>
          \A c \in CATEGORIES :
             /\ { ret.scored[c][k].item : k \in DOMAIN ret.scored[c] }
                   = DOMAIN profile[c]
             /\ \A k \in DOMAIN ret.scored[c] :
                   ScoreOf(c, ret.scored[c][k].item) = ret.scored[c][k].score

\* C8 happens: select_top_items returned nothing of a category whose item
\* it scored above zero, and the item holds that score
ScoreStoredWitness ==
    /\ Selected
    /\ \E c \in CATEGORIES :
          /\ ret.value[c] = << >>
          /\ Len(ret.scored[c]) = 1
          /\ ScoreLess(ZERO, ret.scored[c][1].score)
          /\ ScoreOf(c, 1) = ret.scored[c][1].score

\* how often a token occurs in the token list of the job description
Occurrences(tokens, name) ==
    Cardinality({ k \in DOMAIN tokens : tokens[k] = name })

\* proficiency equals "expert" whatever the letter case
ExpertProficiency(skill) ==
    /\ skill.proficiency # None
    /\ StrLower(skill.proficiency[1]) = <<"e","x","p","e","r","t">>

\* the score the skill formula gives, in hundredths: base x 1.5 if the
\* name is a required skill x 1.2 for an expert, base being 1.5 x the
\* frequency of the name, else 2.0 for a substring of the job description,
\* else 0
SkillFormula(self, requested, skill) ==
    LET lowered == StrLower(skill.name)
        freq    == Occurrences(self.jd_tokens, Str(lowered))
        base    == IF freq > 0 THEN 150 * freq
                   ELSE IF IsSubstring(lowered, StrLower(requested)) THEN 200
                   ELSE 0
        req     == IF Str(lowered) \in self.required_skills THEN 15 ELSE 10
        expert  == IF ExpertProficiency(skill) THEN 12 ELSE 10
    IN  (base * req * expert) \div 100

\* C10: score_skill computes base x 1.5 (required) x 1.2 (expert), and a
\* skill whose name occurs in the job description scores strictly higher
\* as an expert than the same skill with the proficiency unset.
SkillScoreFormula ==
    (ScoredOne /\ ret.category = "skills") =>
       /\ ScoreEq(ret.scored.score,
                  MkScore(SkillFormula(scorer[1].self, ret.requested,
                                       LastItem), 1))
       /\ ( /\ ExpertProficiency(LastItem)
            /\ IsSubstring(StrLower(LastItem.name),
                           StrLower(ret.requested)) )
          => ScoreLess(
                score_skill(scorer[1].self,
                            [LastItem EXCEPT !.proficiency = None]).score,
                ret.scored.score)

\* C10 happens: an expert skill, written in another letter case than
\* "expert", whose name is a required skill and a keyword of the job
\* description
SkillScoreFormulaWitness ==
    /\ ScoredOne
    /\ ret.category = "skills"
    /\ ExpertProficiency(LastItem)
    /\ LastItem.proficiency[1] # <<"e","x","p","e","r","t">>
    /\ ret.scored.matched_keywords \subseteq scorer[1].self.required_skills
    /\ ret.scored.matched_keywords \subseteq
          DOMAIN scorer[1].self.jd_keyword_freq
    /\ ret.scored.matched_keywords # {}

\* the project without the i-th technology it lists
WithoutTechnology(proj, i) ==
    [proj EXCEPT !.technologies =
        SubSeq(@, 1, i - 1) \o SubSeq(@, i + 1, Len(@))]

\* the token a technology is looked up as in the frequency table
TechToken(tech) == Str(StrLower(tech))

\* the i-th technology of the project is a keyword of the job description
\* that the project lists once
MatchingTechnology(self, proj, i) ==
    /\ TechToken(proj.technologies[i]) \in DOMAIN self.jd_keyword_freq
    /\ \A j \in DOMAIN proj.technologies \ {i} :
          TechToken(proj.technologies[j]) # TechToken(proj.technologies[i])

\* C11: of two projects that are identical except that one lists a
\* technology that is a keyword of the job description, score_project gives
\* the one that lists it a strictly higher score, with the technology among
\* its matched keywords.
TechnologyScoresHigher ==
    (ScoredOne /\ ret.category = "projects") =>
       \A i \in DOMAIN LastItem.technologies :
          MatchingTechnology(scorer[1].self, LastItem, i) =>
             /\ ScoreLess(
                   score_project(scorer[1].self,
                                 WithoutTechnology(LastItem, i)).score,
                   ret.scored.score)
             /\ TechToken(LastItem.technologies[i])
                   \in ret.scored.matched_keywords

\* the first statement of the tokenizer's loop body, had it taken a single
\* trailing period off the token
StripOnePeriod(t) ==
    IF t[Len(t)] = "." /\ t # <<".", "n", "e", "t">> /\ Len(t) > 1
    THEN SubSeq(t, 1, Len(t) - 1)
    ELSE t

\* the tokens of a text when a single trailing period is stripped and the
\* filters are applied to what is left
SinglyStripped(text) ==
    LET words    == Split(Clean(StrLower(text)))
        stripped == [i \in DOMAIN words |-> StripOnePeriod(words[i])]
        kept     == SelectSeq(stripped, KeepToken)
    IN  [i \in DOMAIN kept |-> Str(kept[i])]

\* C12: the tokenizer strips a single trailing period from a token, unless
\* the token is ".net" or one character long, so that a token ending in
\* several periods loses exactly one, and filters the token after that.
SinglePeriodStripped ==
    scorer # None =>
       scorer[1].self.jd_tokens = SinglyStripped(scorer[1].requested)

(***************************************************************************)
(* Properties of compilation (checked under SpecCompile)                   *)
(***************************************************************************)
\* compile has just returned
Compiled == ret.op = "compile"

\* the template of the last request: the argument if given, else the
\* profile's selected_template, else the default
EffectiveTemplate == TemplateVal(ret.call.template, user.settings)

\* C3: compiling with a template that is not one of the four known ones
\* succeeds, and the items are selected with the caps of the default
\* template.
UnknownTemplateFallsBack ==
    (Compiled /\ EffectiveTemplate \notin TEMPLATE_TYPES) =>
       /\ ret.value.success
       /\ ret.value.resume_json # None
       /\ \A c \in CATEGORIES :
             Len(ret.value.resume_json[1][c])
                = Min(TEMPLATE_CONFIGS[DEFAULT_TEMPLATE][c], Len(profile[c]))

\* C7: with caching enabled, every successful response carries the
\* effective template of its own request, with item counts within that
\* template's caps, whatever was compiled before.
ResponseOfOwnTemplate ==
    (Compiled /\ ret.call.use_cache /\ ret.value.success) =>
       /\ ret.value.resume_json[1].template = EffectiveTemplate
       /\ \A c \in CATEGORIES :
             Len(ret.value.resume_json[1][c])
                <= ConfigOf(EffectiveTemplate)[c]

\* the status after the k-th failure in a row, the status having been was
StatusAfterFailures(k, was) ==
    IF k >= 10 THEN UNAVAILABLE ELSE IF k >= 3 THEN DEGRADED ELSE was

\* C19: when failures are recorded and k failures in a row are reached, the
\* status is DEGRADED for 3 <= k < 10, UNAVAILABLE for k >= 10, and what it
\* was for k < 3; with 10 failures or more get_client returns None and
\* leaves the client as it is, whether the server answers or not.
FailuresSetStatus ==
    /\ [][redis'.consecutive_failures > redis.consecutive_failures =>
            redis'.status = StatusAfterFailures(redis'.consecutive_failures,
                                                redis.status)]_vars
    /\ [](redis.consecutive_failures >= 10 =>
            \A redis_url, up \in BOOLEAN :
               get_client(redis, redis_url, up) =
                  [rc |-> redis, connection |-> FALSE,
                   attempted |-> FALSE])

\* C19 happens: the tenth failure in a row was recorded by a health check
FailuresSetStatusWitness ==
    /\ redis.consecutive_failures = 10
    /\ redis.status = UNAVAILABLE
    /\ ret.op = "ping"
    /\ ~ret.value

(***************************************************************************)
(* Properties of the RedisClient (checked under SpecRedis)                 *)
(***************************************************************************)
\* C20: after record_success has returned, the count of failures in a row
\* is 0 and the status is HEALTHY, whatever they were before.
SuccessMeansHealthy ==
    ret.op = "record_success" =>
       /\ redis.consecutive_failures = 0
       /\ redis.status = HEALTHY

\* a cache operation is called in this step: it is what returned last, and
\* the step is not the server's
CacheOperation ==
    /\ ret'.op \in {"get_cached", "set_cached", "invalidate_cache"}
    /\ server'.up = server.up

\* what a cache operation returns when it could not do its work
Fallback(op) ==
    IF op = "get_cached" THEN None ELSE IF op = "set_cached" THEN FALSE ELSE 0

\* C21: a cache operation called while the status is UNAVAILABLE returns
\* its fallback (None, False, 0) without contacting Redis and changes
\* nothing; one whose call to Redis raises returns its fallback and records
\* exactly one failure. Either way it returns, it does not raise.
CacheOperationsFallBack ==
    [][CacheOperation =>
          /\ redis.status = UNAVAILABLE =>
                /\ ret'.value = Fallback(ret'.op)
                /\ ~ret'.contacted
                /\ redis' = redis /\ server' = server
          /\ (ret'.contacted /\ ~server.up) =>
                /\ ret'.value = Fallback(ret'.op)
                /\ redis'.consecutive_failures =
                      redis.consecutive_failures + 1
                /\ server' = server
      ]_vars

\* C21 happens: the server holds a value and is down, get_cached reached
\* for it over the connection it had and returned None, and that made the
\* second failure in a row
CacheOperationsFallBackWitness ==
    /\ ret.op = "get_cached"
    /\ ret.contacted
    /\ ret.value = None
    /\ ~server.up
    /\ server.data # << >>
    /\ redis.client
    /\ redis.consecutive_failures = 2

(***************************************************************************)
(* Properties of the request deduplicator (checked under SpecDedupe)       *)
(***************************************************************************)
\* what a call gets that returns the result of the invocation f
ResultOf(f) == Some([kind |-> "returned", value |-> Some(f)])

\* C13: a call started while a request of its key is running and younger
\* than the TTL does not invoke func, and it receives the result of that
\* running invocation once that invocation has returned one.
DuplicatesShareOneInvocation ==
    \A t \in TASKS :
       tasks[t].found # 0 =>
          /\ tasks[t].future = 0
          /\ (tasks[t].pc = "done"
                 /\ futures[tasks[t].found].state = "result") =>
                tasks[t].outcome = ResultOf(tasks[t].found)

\* what a call gets that raises the exception of the invocation f
ExceptionOf(f) == Some([kind |-> "raised", value |-> futures[f].value])

\* the call waits for an invocation that has raised, in time
WaitsForRaised(t) ==
    /\ tasks[t].pc = "waiting"
    /\ futures[tasks[t].awaited].state = "exception"
    /\ ~WaitOver(t)

\* C14: when the in-flight invocation has raised, every call that waits for
\* it ends with that exception when it goes on, and so does the call that
\* made the invocation; none of them gets a result.
ExceptionReachesEveryCaller ==
    [][\A t \in TASKS :
          /\ (WaitsForRaised(t) /\ tasks'[t] # tasks[t]) =>
                /\ tasks'[t].pc = "done"
                /\ tasks'[t].outcome = ExceptionOf(tasks[t].awaited)
          /\ (tasks[t].pc = "executing" /\ tasks'[t].pc = "done"
                 /\ futures'[tasks[t].future].state = "exception") =>
                tasks'[t].outcome = Some([kind |-> "raised",
                                          value |->
                                            futures'[tasks[t].future].value])
      ]_vars

\* every call of the key has yet to be made, or has returned or raised
Quiet(key) ==
    \A t \in TASKS : CALL_KEYS[t] = key => tasks[t].pc \in {"idle", "done"}

\* every other call of the key of task t has yet to be made, or has
\* returned or raised
OthersQuiet(t) ==
    \A u \in TASKS \ {t} :
       CALL_KEYS[u] = CALL_KEYS[t] => tasks[u].pc \in {"idle", "done"}

\* the call of task t runs the check for an in-flight request in this step
Checks(t) ==
    \/ tasks[t].pc = "idle" /\ lock.holder = 0 /\ tasks'[t].pc # "idle"
    \/ tasks[t].pc = "lock_wait" /\ tasks'[t].pc # "lock_wait"

\* the call of task t registers its own future and invokes func in this step
Invokes(t) ==
    /\ tasks'[t].pc = "executing"
    /\ tasks'[t].future = Len(futures) + 1
    /\ Len(futures') = Len(futures) + 1
    /\ in_flight'[CALL_KEYS[t]] =
          [future |-> tasks'[t].future, timestamp |-> now]

\* C15: once every call of a key has returned or raised, the key has no
\* in-flight entry, and a call of that key made then invokes func itself.
NoResultsKept ==
    /\ [](\A t \in TASKS : Quiet(CALL_KEYS[t]) =>
                               CALL_KEYS[t] \notin DOMAIN in_flight)
    /\ [][\A t \in TASKS :
             (OthersQuiet(t) /\ Checks(t)) => Invokes(t)]_vars

\* C15 happens: two calls of one key, one after the other returned, each
\* with the result of its own invocation; no time has passed, so that the
\* second found no entry rather than an expired one
NoResultsKeptWitness ==
    \E t, u \in TASKS :
       /\ CALL_KEYS[t] = CALL_KEYS[u]
       /\ now = 0
       /\ tasks[t].pc = "done" /\ tasks[u].pc = "done"
       /\ tasks[t].future # 0 /\ tasks[t].future < tasks[u].future
       /\ tasks[u].found = 0 /\ tasks[u].awaited = 0
       /\ tasks[t].outcome = ResultOf(tasks[t].future)
       /\ tasks[u].outcome = ResultOf(tasks[u].future)
       /\ CALL_KEYS[t] \notin DOMAIN in_flight

\* the key has an in-flight entry whose age has reached the TTL
FindsExpired(t) ==
    /\ CALL_KEYS[t] \in DOMAIN in_flight
    /\ now - in_flight[CALL_KEYS[t]].timestamp >= TTL_SECONDS

\* C16: a call that finds an in-flight entry of its key whose age has
\* reached the TTL does not wait: it replaces the entry by its own, invokes
\* func itself, and what it returns is the result of its own invocation.
ExpiredEntryReplaced ==
    /\ [][\A t \in TASKS : (FindsExpired(t) /\ Checks(t)) => Invokes(t)]_vars
    /\ [](\A t \in TASKS :
            (tasks[t].pc = "done" /\ tasks[t].future # 0
               /\ futures[tasks[t].future].state = "result") =>
               tasks[t].outcome = ResultOf(tasks[t].future))

\* C16 happens: the first call of a key is still running, the second call,
\* which never waited, has returned the result of its own, later invocation
ExpiredEntryReplacedWitness ==
    /\ tasks[2].pc = "executing"
    /\ futures[tasks[2].future].state = "pending"
    /\ tasks[3].pc = "done"
    /\ tasks[3].awaited = 0
    /\ tasks[3].future > tasks[2].future
    /\ tasks[3].outcome = ResultOf(tasks[3].future)

(***************************************************************************)
(* Properties of the scorer cache under threads (checked under SpecThreads)*)
(***************************************************************************)
\* C18: the scorer cache never holds more than its maximum number of
\* entries, whatever constructions and clear_cache calls were made and
\* however the steps of constructions interleave.
CacheBounded == Len(cache) <= CACHE_MAX_SIZE


(***************************************************************************)
(* Properties of the CSRF middleware (checked under SpecCsrf)              *)
(***************************************************************************)
\* the request carries an X-CSRF-Token header and a csrf_token cookie with
\* equal values
CarriesMatchingTokens(request) ==
    /\ ~Falsy(request.header_token)
    /\ ~Falsy(request.cookie_token)
    /\ request.header_token = request.cookie_token

Rejected(response) ==
    ~response.forwarded /\ response.status = HTTP_FORBIDDEN

\* C22: in the application as configured, every POST, PUT, DELETE or PATCH
\* request to a path other than the health endpoints is rejected with 403
\* before its handler unless it carries a header token and a cookie token
\* with equal values; GET, HEAD and OPTIONS requests are never rejected.
CsrfRejectsUnmatched ==
    ret.op = "dispatch" =>
       /\ (/\ ret.request.method \in STATE_CHANGING_METHODS
           /\ ret.request.path \notin HEALTH_PATHS
           /\ ~CarriesMatchingTokens(ret.request)) => Rejected(ret.response)
       /\ ret.request.method \in SAFE_METHODS => ~Rejected(ret.response)


(***************************************************************************)
(* Properties of interleaved constructions (checked under SpecStatements)  *)
(***************************************************************************)
\* the constructor has returned a scorer to the thread
Obtained(th) == threads[th].pc = "idle" /\ threads[th].instance # None

\* C23: however constructions for the same or for different job
\* descriptions interleave, a scorer that the constructor has returned to
\* a caller has all of its derived fields set, although __new__ puts the
\* instance into the shared cache before __init__ has run.
ObtainedScorerComplete ==
    \A th \in THREADS :
       Obtained(th) =>
          threads[th].instance[1].attrs = Range(DERIVED_FIELDS)

\* C23 happens: thread-2 was given, from the cache, the instance thread-1
\* created, and has it back from the constructor with all fields set while
\* thread-1 has not yet run the first statement of its __init__
ObtainedScorerCompleteWitness ==
    /\ Obtained("thread-2")
    /\ threads["thread-2"].instance[1].id = Some(<< "thread-1", 0 >>)
    /\ threads["thread-2"].instance[1].attrs = Range(DERIVED_FIELDS)
    /\ threads["thread-1"].pc = "init"
    /\ threads["thread-1"].instance = threads["thread-2"].instance


(***************************************************************************)
(* Properties of the deduplicator's lock (checked under SpecDedupe)        *)
(***************************************************************************)
\* the call of task t has been made and is queued for the lock, which the
\* call of task u holds while it awaits the in-flight request of its key
BlockedBehindWaiter(t, u) ==
    /\ tasks[t].pc = "lock_wait"
    /\ lock.holder = u
    /\ tasks[u].pc = "waiting"
    /\ futures[tasks[u].awaited].state = "pending"

\* C24: a call for one key never has to wait for an in-flight request of
\* a different key before its own func is invoked: the lock is never held
\* by a call that is awaiting a result, so no call is queued for the lock
\* behind a call of another key that awaits its in-flight request.
DifferentKeysNotBlocked ==
    \A t, u \in TASKS :
       CALL_KEYS[t] # CALL_KEYS[u] => ~BlockedBehindWaiter(t, u)


\* the call of task t runs its finally clause in this step
CleansUp(t) ==
    /\ tasks[t].pc \in {"executing", "cleanup_wait"}
    /\ tasks'[t].pc = "done"

\* C25: the finally clause of an execute call removes from the in-flight
\* map only the entry the call registered itself: the entry that a newer
\* call of the same key has put in its place stays registered.
RemovesOwnEntryOnly ==
    [][\A t \in TASKS :
          CleansUp(t) =>
             \A key \in DOMAIN in_flight \ DOMAIN in_flight' :
                in_flight[key].future = tasks[t].future]_vars


\* the calls through which the application uses the Redis client
CLIENT_CALLS ==
    {"get_cached", "set_cached", "invalidate_cache", "ping", "get_client",
     "close"}

\* one of these calls is made in this step: it is what returned last, and
\* the step is not the server's
ClientCall ==
    /\ ret'.op \in CLIENT_CALLS
    /\ server'.up = server.up

\* the status is UNAVAILABLE and 10 or more failures in a row are counted
UnavailableAfterFailures ==
    /\ redis.status = UNAVAILABLE
    /\ redis.consecutive_failures >= MAX_FAILURES_BEFORE_UNAVAILABLE

\* C26: UNAVAILABLE with 10 or more failures in a row is absorbing: a
\* get_cached, set_cached, invalidate_cache, ping, get_client or close
\* call made in it does not contact Redis, and leaves the count of
\* failures and the status as they are, whether or not the server answers.
GivenUpIsAbsorbing ==
    [][(UnavailableAfterFailures /\ ClientCall) =>
          /\ redis'.status = redis.status
          /\ redis'.consecutive_failures = redis.consecutive_failures
          /\ ret'.op # "close" => ~ret'.contacted
          /\ server' = server
      ]_vars

\* C26 happens: the server answers and a URL is configured, but ping, made
\* after the client gave up with its connection still in place, returned
\* False without reaching for the server
GivenUpIsAbsorbingWitness ==
    /\ UnavailableAfterFailures
    /\ redis.client
    /\ config.redis_url
    /\ server.up
    /\ ret.op = "ping" /\ ~ret.value /\ ~ret.contacted


\* the client is as __init__ left it: UNAVAILABLE, no failure counted, no
\* connection
InitialClient == redis = NewRedisClient

\* C27: in the initial state of the client, get_cached, set_cached and
\* invalidate_cache return their fallback values without attempting a
\* connection and change nothing, so that only ping or a direct
\* get_client call takes the status away from the initial UNAVAILABLE.
InitialClientSkipsCache ==
    /\ [][(InitialClient /\ CacheOperation) =>
             /\ ret'.value = Fallback(ret'.op)
             /\ ~ret'.contacted
             /\ redis' = redis
             /\ server' = server]_vars
    /\ [][(InitialClient /\ redis'.status # UNAVAILABLE) =>
             /\ ret'.op \in {"ping", "get_client"}
             /\ ret'.contacted]_vars

\* C27 happens: a URL is configured, the server answers and holds the
\* value of the key, and get_cached, called on a client in its initial
\* state, returned None without reaching for the server
InitialClientSkipsCacheWitness ==
    /\ InitialClient
    /\ config.redis_url
    /\ server.up
    /\ ret.op = "get_cached" /\ ret.value = None /\ ~ret.contacted
    /\ REDIS_KEYS \subseteq DOMAIN server.data


(***************************************************************************)
(* Properties of the response cache of compile (checked under SpecCompile) *)
(***************************************************************************)
\* compile is called in this step: it is what returned last, and the step
\* is not the server's
CompileCall == ret'.op = "compile" /\ server'.up = server.up

\* the cache key of the call that returns in this step
KeyOfCall ==
    generate_cache_key(user.id, ret'.call.job_description, "resume")

\* what get_cached returns to the call that returns in this step
FoundByCall ==
    get_cached(redis, config.redis_url, server, KeyOfCall).value

\* the client holds a connection it may use and the server answers
CacheWorks == redis.client /\ is_available(redis) /\ server.up

\* C28: with caching enabled, compile stores every response it builds on
\* a miss, also one whose PDF generation failed (success true, no PDF, an
\* error); a later call that finds the entry returns the stored response
\* without scoring and whatever its own PDF generation would have given;
\* and no response with success false is ever stored.
BuiltResponsesCached ==
    /\ [][(CompileCall /\ ret'.call.use_cache /\ CacheWorks) =>
             /\ (FoundByCall = None /\ ret'.value.success) =>
                   /\ KeyOfCall \in DOMAIN server'.data
                   /\ server'.data[KeyOfCall] =
                         ModelDump(ret'.value, profile')
             /\ FoundByCall # None =>
                   /\ ret'.value = server.data[KeyOfCall]
                   /\ profile' = profile
                   /\ cache' = cache
                   /\ server' = server
             /\ ~ret'.value.success => server' = server]_vars
    /\ [](\A key \in DOMAIN server.data : server.data[key].success)

\* C28 happens: the call that returned last would have had its PDF
\* generated, but it returned the stored response of an earlier call whose
\* PDF generation failed: success true, no PDF, an error
BuiltResponsesCachedWitness ==
    /\ ret.op = "compile"
    /\ ret.call.use_cache
    /\ ret.call.pdf = GENERATED
    /\ ret.value.success
    /\ ret.value.pdf_base64 = None
    /\ ret.value.error # None
    /\ generate_cache_key(user.id, ret.call.job_description, "resume")
          \in DOMAIN server.data
    /\ ret.value =
          server.data[generate_cache_key(user.id, ret.call.job_description,
                                         "resume")]


(***************************************************************************)
(* Properties of the reuse of scorers (checked under Spec)                 *)
(***************************************************************************)
\* the derived state of a scorer: what __init__ assigns
DerivedState(self) == [field \in Range(DERIVED_FIELDS) |-> self[field]]

\* score_profile or select_top_items returns in this step
ScoringCall ==
    /\ ret'.op \in {"score_profile", "select_top_items"}
    /\ ret' # ret \/ profile' # profile

\* C29: reuse is a pure optimisation: the derived state of the scorer the
\* constructor returns, from the cache or not, also for a text that
\* differs in letter case only from the one first analysed, is what a
\* fresh analysis of the requested text gives, and no scoring or selection
\* call changes the derived state of a scorer.
ReuseIsPureOptimisation ==
    /\ [](scorer # None =>
            DerivedState(scorer[1].self) =
               DerivedState(FreshScorer(scorer[1].requested)))
    /\ [][ScoringCall => (scorer' = scorer /\ cache' = cache)]_vars


(***************************************************************************)
(* The frame of score_profile and select_top_items (checked under Spec)    *)
(***************************************************************************)
\* an item without regard to its relevance_score
Unscored(item) == [item EXCEPT !.relevance_score = ZERO]

\* C30: score_profile and select_top_items change nothing but the
\* relevance_score of the items of the profile: every other field of
\* every item, the membership and the order of the five lists, the scorer
\* and the scorer cache are as they were.
ScoringChangesScoresOnly ==
    [][ScoringCall =>
          /\ \A c \in CATEGORIES :
                /\ DOMAIN profile'[c] = DOMAIN profile[c]
                /\ \A i \in DOMAIN profile[c] :
                      Unscored(profile'[c][i]) = Unscored(profile[c][i])
          /\ scorer' = scorer
          /\ cache' = cache
      ]_vars

\* C30 happens: select_top_items returned, the sorted list of a category
\* begins with another item than the first of the profile, the items of
\* the profile are in the order of the pool, and one of them holds a score
\* above zero
ScoringChangesScoresOnlyWitness ==
    /\ ret.op = "select_top_items"
    /\ \E c \in CATEGORIES :
          /\ Len(ret.scored[c]) > 1
          /\ ret.scored[c][1].item # 1
          /\ \A i \in DOMAIN profile[c] :
                Unscored(profile[c][i]) = ITEM_POOL[c][i]
          /\ \E i \in DOMAIN profile[c] :
                ScoreLess(ZERO, profile[c][i].relevance_score)

=============================================================================
